---------------------------- MODULE Spec2Model ----------------------------
(***************************************************************************)
(* A model of the bundle assembly and re-identification engine of          *)
(* fhir_test_utils: FHIRBundleGenerator (bundle_generator.py) and          *)
(* MADiEExporter (madie_exporter.py).                                      *)
(*                                                                         *)
(* Python dictionaries are records, lists are sequences.  A bundle is a    *)
(* mutable object: it lives in `heap` and generators hold its address, so  *)
(* that two generators naming the same address share one bundle.           *)
(* uuid.uuid4() is a draw from a counter: the n-th draw is "uuid-n".       *)
(***************************************************************************)
EXTENDS Integers, Sequences, FiniteSets, TLC

\* ------------------------------------------------------------------ bounds

\* Factory calls made on the generator in SpecFactory.
MaxCalls == 3

\* add_encounter calls made in SpecEncounter.
MaxEncounters == 2

\* Caller operations (factory calls, appends, registrations, export() calls)
\* in SpecForeign.
MaxForeignOps == 4

\* Caller operations (factory calls, registrations, export() calls) in Spec.
MaxOps == 6

\* ------------------------------------------------------------- Python bits

\* Python's None, where an optional string argument is absent.
None == "None"

\* A Python dict whose key order matters is [items |-> the sequence of its
\* <<key, value>> pairs in insertion order]; NoDict is None in its place.
Dict(items) == [items |-> items]

NoDict == [none |-> TRUE]

\* str(uuid.uuid4()): the n-th value drawn in this run.
uuid4(n) == "uuid-" \o ToString(n)

\* --------------------------------------------------------------- catalogs

QICORE_BASE == "http://hl7.org/fhir/us/qicore/StructureDefinition"

QICORE_PROFILES ==
  [Patient |-> QICORE_BASE \o "/qicore-patient",
   Encounter |-> QICORE_BASE \o "/qicore-encounter",
   Condition |-> QICORE_BASE \o "/qicore-condition-problems-health-concerns",
   ConditionProblemsHealthConcerns |->
     QICORE_BASE \o "/qicore-condition-problems-health-concerns",
   Coverage |-> QICORE_BASE \o "/qicore-coverage",
   Location |-> QICORE_BASE \o "/qicore-location",
   ObservationLab |-> QICORE_BASE \o "/qicore-observation-lab",
   ObservationClinicalResult |-> QICORE_BASE \o "/qicore-observation-clinical-result",
   SimpleObservation |-> QICORE_BASE \o "/qicore-simple-observation",
   Medication |-> QICORE_BASE \o "/qicore-medication",
   MedicationRequest |-> QICORE_BASE \o "/qicore-medicationrequest",
   MedicationNotRequested |-> QICORE_BASE \o "/qicore-medicationnotrequested",
   MedicationAdministration |-> QICORE_BASE \o "/qicore-medicationadministration",
   Procedure |-> QICORE_BASE \o "/qicore-procedure",
   ServiceRequest |-> QICORE_BASE \o "/qicore-servicerequest",
   ServiceNotRequested |-> QICORE_BASE \o "/qicore-servicenotrequested",
   Device |-> QICORE_BASE \o "/qicore-device",
   Practitioner |-> QICORE_BASE \o "/qicore-practitioner"]

USCORE_BASE == "http://hl7.org/fhir/us/core/StructureDefinition"

USCORE_PROFILES == [Specimen |-> USCORE_BASE \o "/us-core-specimen"]

CQFM_BASE == "http://hl7.org/fhir/us/cqfmeasures/StructureDefinition"

CQFM_PROFILES == [MeasureReport |-> CQFM_BASE \o "/test-case-cqfm"]

MADIE_BASE_URL == "https://madie.cms.gov"

\* ------------------------------------------------------------------ state

VARIABLES
  heap,         \* address -> bundle object (the dict self.bundle points to)
  source_gen,   \* the caller's FHIRBundleGenerator: its fields
  uuids,        \* number of uuid4() values drawn so far
  last,         \* the last factory call on source_gen: name, arguments, result
  test_cases,   \* MADiEExporter.test_cases
  pc,           \* position inside MADiEExporter.export ("idle" outside it)
  i,            \* export's loop index into test_cases
  gen,          \* export's local generator `gen` of the current iteration
  saved,        \* what gen.save wrote, in order: the serialized bundles
  ops,          \* caller operations performed so far
  vsac          \* the VSACClient: max_retries, _stats, and _make_request's locals

vars == <<heap, source_gen, uuids, last, test_cases, pc, i, gen, saved, ops, vsac>>

exportVars == <<test_cases, pc, i, gen, saved>>

\* The entry list of the caller's generator, self.bundle["entry"].
SourceEntries == heap[source_gen.bundle].entry

\* -------------------------------------------------- FHIRBundleGenerator

\* FHIRBundleGenerator.__init__ with n uuids drawn before it: the generator,
\* its new bundle and the number of uuids drawn after it.  `patient_id or
\* uuid4()` draws only when the caller gave none; the bundle id is always
\* drawn (its dashes removed and cut to 24 characters: still one fresh token
\* per draw, written "bundle-" and the draw).
FHIRBundleGenerator(n, addr, test_case_name, patient_id) ==
  LET n1 == IF patient_id = None THEN n + 1 ELSE n
  IN [self |-> [test_case_name |-> test_case_name,
                patient_id |-> IF patient_id = None THEN uuid4(n1) ELSE patient_id,
                bundle |-> addr],
      bundle |-> [resourceType |-> "Bundle",
                  id |-> "bundle-" \o ToString(n1 + 1),
                  type |-> "transaction",
                  entry |-> <<>>],
      uuids |-> n1 + 1]

_generate_id(n) == uuid4(n)

\* What a factory call reports: the entry list after it, the id it returns
\* and the number of uuids drawn.
Result(entry, ret, n) == [entry |-> entry, ret |-> ret, uuids |-> n]

\* A bug _add_entry could have: the new entry is put in front.
add_entry_prepend(entry, n, resource, resource_id) ==
  LET rid == IF resource_id # None THEN resource_id
             ELSE IF "id" \in DOMAIN resource THEN resource.id
             ELSE _generate_id(n + 1)
  IN Result(<<[fullUrl |-> MADIE_BASE_URL \o "/" \o resource.resourceType \o "/" \o rid,
               resource |-> resource,
               request |-> [method |-> "PUT",
                            url |-> resource.resourceType \o "/" \o rid]]>> \o entry,
            rid, IF resource_id = None THEN n + 1 ELSE n)

\* _add_entry(resource, resource_id) on the entry list `entry` with n uuids
\* drawn.  resource.get("id", self._generate_id()) evaluates its default
\* before the lookup, so a uuid is drawn whenever resource_id is None.
_add_entry(entry, n, resource, resource_id) ==
  LET rid == IF resource_id # None THEN resource_id
             ELSE IF "id" \in DOMAIN resource THEN resource.id
             ELSE _generate_id(n + 1)
      resource_type == resource.resourceType
  IN Result(Append(entry,
              [fullUrl |-> MADIE_BASE_URL \o "/" \o resource_type \o "/" \o rid,
               resource |-> resource,
               request |-> [method |-> "PUT",
                            url |-> resource_type \o "/" \o rid]]),
            rid, IF resource_id = None THEN n + 1 ELSE n)

\* A bug the subject reference could have: built from the test case name.
PatientRefByName(self) == [reference |-> "Patient/" \o self.test_case_name]

\* "Patient/{self.patient_id}"
PatientRef(self) == [reference |-> "Patient/" \o self.patient_id]

\* A bug add_patient could have: the Patient appended before its Practitioner.
add_patient_primary_first(self, entry, n, given_name, family_name, gender, birth_date) ==
  LET a1 == _add_entry(entry, n,
              [resourceType |-> "Patient", id |-> self.patient_id,
               meta |-> [profile |-> <<QICORE_PROFILES.Patient>>],
               identifier |-> <<[system |-> MADIE_BASE_URL \o "/",
                                 value |-> self.patient_id]>>,
               name |-> <<[use |-> "official", family |-> "TestPatient",
                           given |-> <<self.test_case_name>>]>>],
              self.patient_id)
      a2 == _add_entry(a1.entry, a1.uuids,
              [resourceType |-> "Practitioner", id |-> "gp-001",
               meta |-> [profile |-> <<QICORE_PROFILES.Practitioner>>]],
              "gp-001")
  IN Result(a2.entry, self.patient_id, a2.uuids)

\* add_patient: the general practitioner first, then the Patient.
add_patient(self, entry, n, given_name, family_name, gender, birth_date) ==
  LET given == IF given_name = None THEN self.test_case_name ELSE given_name
      family == IF family_name = None THEN "TestPatient" ELSE family_name
      gp_id == "gp-001"
      gp_practitioner ==
        [resourceType |-> "Practitioner",
         id |-> gp_id,
         meta |-> [profile |-> <<QICORE_PROFILES.Practitioner>>],
         identifier |-> <<[system |-> "http://hl7.org/fhir/sid/us-npi",
                           value |-> "1234567893"]>>,
         name |-> <<[family |-> "GeneralPractitioner", given |-> <<"Dr">>]>>]
      a1 == _add_entry(entry, n, gp_practitioner, gp_id)
      patient ==
        [resourceType |-> "Patient",
         id |-> self.patient_id,
         meta |-> [profile |-> <<QICORE_PROFILES.Patient>>],
         extension |-> <<[url |-> "us-core-race", code |-> "2028-9"],
                         [url |-> "us-core-ethnicity", code |-> "2186-5"]>>,
         identifier |-> <<[system |-> MADIE_BASE_URL \o "/",
                           value |-> self.patient_id]>>,
         active |-> TRUE,
         name |-> <<[use |-> "official", family |-> family, given |-> <<given>>]>>,
         gender |-> gender,
         birthDate |-> birth_date,
         generalPractitioner |-> <<[reference |-> "Practitioner/" \o gp_id]>>,
         managingOrganization |-> [reference |-> "Organization/managing-org-001"],
         link |-> <<[other |-> [reference |-> "Patient/related-patient-001"],
                     type |-> "seealso"]>>]
      a2 == _add_entry(a1.entry, a1.uuids, patient, self.patient_id)
  IN Result(a2.entry, self.patient_id, a2.uuids)

\* A bug the class display could have: no default, the code shown as it is.
class_display_map_echo(class_code) ==
  CASE class_code = "IMP" -> "inpatient encounter"
    [] class_code = "ACUTE" -> "inpatient acute"
    [] class_code = "NONAC" -> "inpatient non-acute"
    [] class_code = "SS" -> "short stay"
    [] class_code = "EMER" -> "emergency"
    [] class_code = "OBSENC" -> "observation encounter"
    [] OTHER -> class_code

\* class_display_map of add_encounter, with .get's default.
class_display_map(class_code) ==
  CASE class_code = "IMP" -> "inpatient encounter"
    [] class_code = "ACUTE" -> "inpatient acute"
    [] class_code = "NONAC" -> "inpatient non-acute"
    [] class_code = "SS" -> "short stay"
    [] class_code = "EMER" -> "emergency"
    [] class_code = "OBSENC" -> "observation encounter"
    [] class_code = "AMB" -> "ambulatory"
    [] OTHER -> "ambulatory"

\* id[:8], the first eight characters of an id: a token of its own, the id
\* tagged with the slice (no id the generator hands out equals it).
first8(id) == id \o "[:8]"

\* _build_encounter_locations without a locations list: the single location,
\* the caller's location_id or 'default-loc-' + encounter_id[:8].
_build_encounter_locations(location_id, encounter_id, default_start, default_end) ==
  <<[location |->
       [reference |-> "Location/" \o (IF location_id # None THEN location_id
                                      ELSE "default-loc-" \o first8(encounter_id))],
     status |-> "active",
     period |-> [start |-> default_start, end |-> default_end]]>>

add_encounter(self, entry, n, start, end, status, class_code, class_display, location_id) ==
  LET encounter_id == _generate_id(n + 1)
      display == IF class_display = None THEN class_display_map(class_code)
                 ELSE class_display
      encounter ==
        [resourceType |-> "Encounter",
         id |-> encounter_id,
         meta |-> [profile |-> <<QICORE_PROFILES.Encounter>>],
         identifier |-> <<[system |-> MADIE_BASE_URL \o "/encounter-id",
                           value |-> encounter_id]>>,
         status |-> status,
         class |-> [code |-> class_code, display |-> display],
         subject |-> PatientRef(self),
         period |-> [start |-> start, end |-> end],
         reasonReference |->
           <<[reference |-> "Condition/cond-" \o first8(encounter_id)]>>,
         diagnosis |->
           <<[condition |-> [reference |-> "Condition/diag-" \o first8(encounter_id)],
              use |-> "AD", rank |-> 1]>>,
         account |-> <<[reference |-> "Account/acct-" \o first8(encounter_id)]>>,
         partOf |-> [reference |-> "Encounter/parent-" \o first8(encounter_id)],
         location |-> _build_encounter_locations(location_id, encounter_id, start, end)]
  IN _add_entry(entry, n + 1, encounter, encounter_id)

\* A bug add_coverage could have: a second profile attached.
add_coverage_two_profiles(self, entry, n, start, end) ==
  LET coverage_id == _generate_id(n + 1)
      coverage ==
        [resourceType |-> "Coverage",
         id |-> coverage_id,
         meta |-> [profile |-> <<QICORE_PROFILES.Coverage, QICORE_PROFILES.Patient>>],
         status |-> "active",
         policyHolder |-> PatientRef(self),
         subscriber |-> PatientRef(self),
         beneficiary |-> PatientRef(self),
         period |-> [start |-> start, end |-> end],
         payor |-> <<[reference |-> "Organization/payor-org-123"]>>]
  IN _add_entry(entry, n + 1, coverage, coverage_id)

add_coverage(self, entry, n, start, end) ==
  LET coverage_id == _generate_id(n + 1)
      coverage ==
        [resourceType |-> "Coverage",
         id |-> coverage_id,
         meta |-> [profile |-> <<QICORE_PROFILES.Coverage>>],
         status |-> "active",
         policyHolder |-> PatientRef(self),
         subscriber |-> PatientRef(self),
         subscriberId |-> "MBR-12345",
         beneficiary |-> PatientRef(self),
         period |-> [start |-> start, end |-> end],
         payor |-> <<[reference |-> "Organization/payor-org-123"]>>]
  IN _add_entry(entry, n + 1, coverage, coverage_id)

\* A bug the profile selection could have: the Lab profile as the fallback.
observation_profile_lab_default(category) ==
  IF category = "vital-signs" THEN QICORE_PROFILES.ObservationClinicalResult
  ELSE QICORE_PROFILES.ObservationLab

\* Select appropriate profile based on category (add_observation).
observation_profile(category) ==
  IF category = "laboratory" THEN QICORE_PROFILES.ObservationLab
  ELSE IF category = "vital-signs" THEN QICORE_PROFILES.ObservationClinicalResult
  ELSE QICORE_PROFILES.SimpleObservation

\* add_observation: a Specimen, then the Observation that references it.  The
\* observation id is drawn first, the specimen id second.
add_observation(self, entry, n, encounter_id, category, value, unit) ==
  LET observation_id == _generate_id(n + 1)
      specimen_id == _generate_id(n + 2)
      specimen ==
        [resourceType |-> "Specimen",
         id |-> specimen_id,
         meta |-> [profile |-> <<USCORE_PROFILES.Specimen>>],
         subject |-> PatientRef(self)]
      a1 == _add_entry(entry, n + 2, specimen, specimen_id)
      observation ==
        [resourceType |-> "Observation",
         id |-> observation_id,
         meta |-> [profile |-> <<observation_profile(category)>>],
         status |-> "final",
         category |-> <<[code |-> category]>>,
         subject |-> PatientRef(self),
         encounter |-> [reference |-> "Encounter/" \o encounter_id],
         valueQuantity |-> [value |-> value, unit |-> unit, code |-> unit],
         specimen |-> [reference |-> "Specimen/" \o specimen_id]]
  IN _add_entry(a1.entry, a1.uuids, observation, observation_id)

\* add_blood_culture: a Specimen under the caller's specimen_id (drawn when
\* None), then the Observation; returns both ids.
add_blood_culture(self, entry, n, encounter_id, organism_code, specimen_id) ==
  LET observation_id == _generate_id(n + 1)
      n1 == IF specimen_id = None THEN n + 2 ELSE n + 1
      spec_id == IF specimen_id = None THEN _generate_id(n + 2) ELSE specimen_id
      specimen ==
        [resourceType |-> "Specimen",
         id |-> spec_id,
         meta |-> [profile |-> <<USCORE_PROFILES.Specimen>>],
         subject |-> PatientRef(self)]
      a1 == _add_entry(entry, n1, specimen, spec_id)
      observation ==
        [resourceType |-> "Observation",
         id |-> observation_id,
         meta |-> [profile |-> <<QICORE_PROFILES.ObservationLab>>],
         status |-> "final",
         category |-> <<[code |-> "laboratory"]>>,
         subject |-> PatientRef(self),
         encounter |-> [reference |-> "Encounter/" \o encounter_id],
         valueCodeableConcept |-> [code |-> organism_code],
         specimen |-> [reference |-> "Specimen/" \o spec_id]]
      a2 == _add_entry(a1.entry, a1.uuids, observation, observation_id)
  IN Result(a2.entry, <<observation_id, spec_id>>, a2.uuids)

\* The default medication code of the medication factories.
default_medication_code == "860975"

\* add_medication_administration: Practitioner, Device, then the
\* MedicationAdministration.
add_medication_administration(self, entry, n, encounter_id, medication_code) ==
  LET med_admin_id == _generate_id(n + 1)
      practitioner_id == _generate_id(n + 2)
      device_id == _generate_id(n + 3)
      code == IF medication_code = None THEN default_medication_code
              ELSE medication_code
      practitioner ==
        [resourceType |-> "Practitioner",
         id |-> practitioner_id,
         meta |-> [profile |-> <<QICORE_PROFILES.Practitioner>>],
         name |-> <<[family |-> "Nurse", given |-> <<"Admin">>]>>]
      a1 == _add_entry(entry, n + 3, practitioner, practitioner_id)
      device ==
        [resourceType |-> "Device",
         id |-> device_id,
         meta |-> [profile |-> <<QICORE_PROFILES.Device>>],
         patient |-> PatientRef(self)]
      a2 == _add_entry(a1.entry, a1.uuids, device, device_id)
      medication_admin ==
        [resourceType |-> "MedicationAdministration",
         id |-> med_admin_id,
         meta |-> [profile |-> <<QICORE_PROFILES.MedicationAdministration>>],
         status |-> "completed",
         medicationCodeableConcept |-> [coding |-> <<[code |-> code]>>],
         subject |-> PatientRef(self),
         context |-> [reference |-> "Encounter/" \o encounter_id],
         performer |-> <<[actor |-> [reference |-> "Practitioner/" \o practitioner_id]]>>,
         device |-> <<[reference |-> "Device/" \o device_id]>>]
  IN _add_entry(a2.entry, a2.uuids, medication_admin, med_admin_id)

\* add_medication_request: the requester, the recorder, then the
\* MedicationRequest.
add_medication_request(self, entry, n, encounter_id, medication_code) ==
  LET med_request_id == _generate_id(n + 1)
      practitioner_id == _generate_id(n + 2)
      recorder_id == _generate_id(n + 3)
      code == IF medication_code = None THEN default_medication_code
              ELSE medication_code
      practitioner ==
        [resourceType |-> "Practitioner",
         id |-> practitioner_id,
         meta |-> [profile |-> <<QICORE_PROFILES.Practitioner>>],
         name |-> <<[family |-> "Smith", given |-> <<"John">>]>>]
      a1 == _add_entry(entry, n + 3, practitioner, practitioner_id)
      recorder ==
        [resourceType |-> "Practitioner",
         id |-> recorder_id,
         meta |-> [profile |-> <<QICORE_PROFILES.Practitioner>>],
         name |-> <<[family |-> "Recorder", given |-> <<"Jane">>]>>]
      a2 == _add_entry(a1.entry, a1.uuids, recorder, recorder_id)
      medication_request ==
        [resourceType |-> "MedicationRequest",
         id |-> med_request_id,
         meta |-> [profile |-> <<QICORE_PROFILES.MedicationRequest>>],
         status |-> "active",
         intent |-> "order",
         reportedReference |-> [reference |-> "Practitioner/" \o practitioner_id],
         medicationCodeableConcept |-> [coding |-> <<[code |-> code]>>],
         subject |-> PatientRef(self),
         encounter |-> [reference |-> "Encounter/" \o encounter_id],
         requester |-> [reference |-> "Practitioner/" \o practitioner_id],
         recorder |-> [reference |-> "Practitioner/" \o recorder_id]]
  IN _add_entry(a2.entry, a2.uuids, medication_request, med_request_id)

\* add_procedure: a Location, then the Procedure performed there.
add_procedure(self, entry, n, encounter_id, performed_start, performed_end) ==
  LET procedure_id == _generate_id(n + 1)
      location_id == _generate_id(n + 2)
      location ==
        [resourceType |-> "Location",
         id |-> location_id,
         meta |-> [profile |-> <<QICORE_PROFILES.Location>>],
         status |-> "active",
         name |-> "Operating Room 1"]
      a1 == _add_entry(entry, n + 2, location, location_id)
      procedure ==
        [resourceType |-> "Procedure",
         id |-> procedure_id,
         meta |-> [profile |-> <<QICORE_PROFILES.Procedure>>],
         status |-> "completed",
         subject |-> PatientRef(self),
         encounter |-> [reference |-> "Encounter/" \o encounter_id],
         performedPeriod |-> [start |-> performed_start, end |-> performed_end],
         location |-> [reference |-> "Location/" \o location_id]]
  IN _add_entry(a1.entry, a1.uuids, procedure, procedure_id)

\* add_location: one Location.
add_location(self, entry, n) ==
  LET location_id == _generate_id(n + 1)
      location ==
        [resourceType |-> "Location",
         id |-> location_id,
         meta |-> [profile |-> <<QICORE_PROFILES.Location>>],
         status |-> "active",
         name |-> "Trauma ICU",
         managingOrganization |-> [reference |-> "Organization/hospital-org-123"],
         partOf |-> [reference |-> "Location/parent-location-001"],
         endpoint |-> <<[reference |-> "Endpoint/location-endpoint-001"]>>]
  IN _add_entry(entry, n + 1, location, location_id)

\* add_condition: one Condition of the encounter the caller names.
add_condition(self, entry, n, encounter_id, clinical_status) ==
  LET condition_id == _generate_id(n + 1)
      condition ==
        [resourceType |-> "Condition",
         id |-> condition_id,
         meta |-> [profile |-> <<QICORE_PROFILES.ConditionProblemsHealthConcerns>>],
         clinicalStatus |-> [coding |-> <<[code |-> clinical_status]>>],
         category |-> <<[code |-> "problem-list-item"]>>,
         subject |-> PatientRef(self),
         encounter |-> [reference |-> "Encounter/" \o encounter_id]]
  IN _add_entry(entry, n + 1, condition, condition_id)

\* add_observation_data_absent: one Observation without a value; the profile
\* is selected by category as in add_observation.
add_observation_data_absent(self, entry, n, encounter_id, category) ==
  LET observation_id == _generate_id(n + 1)
      profile == IF category = "laboratory" THEN QICORE_PROFILES.ObservationLab
                 ELSE IF category = "vital-signs"
                      THEN QICORE_PROFILES.ObservationClinicalResult
                 ELSE QICORE_PROFILES.SimpleObservation
      observation ==
        [resourceType |-> "Observation",
         id |-> observation_id,
         meta |-> [profile |-> <<profile>>],
         status |-> "final",
         category |-> <<[code |-> category]>>,
         subject |-> PatientRef(self),
         encounter |-> [reference |-> "Encounter/" \o encounter_id],
         effectiveDateTime |-> "2022-01-06T10:00:00.000Z",
         dataAbsentReason |-> [coding |-> <<[code |-> "not-performed"]>>]]
  IN _add_entry(entry, n + 1, observation, observation_id)

\* add_medication_not_requested: the requester, the recorder, then the
\* MedicationRequest with doNotPerform.
add_medication_not_requested(self, entry, n, encounter_id, authored_on, medication_code) ==
  LET med_request_id == _generate_id(n + 1)
      practitioner_id == _generate_id(n + 2)
      recorder_id == _generate_id(n + 3)
      code == IF medication_code = None THEN default_medication_code
              ELSE medication_code
      practitioner ==
        [resourceType |-> "Practitioner",
         id |-> practitioner_id,
         meta |-> [profile |-> <<QICORE_PROFILES.Practitioner>>],
         name |-> <<[family |-> "Smith", given |-> <<"John">>]>>]
      a1 == _add_entry(entry, n + 3, practitioner, practitioner_id)
      recorder ==
        [resourceType |-> "Practitioner",
         id |-> recorder_id,
         meta |-> [profile |-> <<QICORE_PROFILES.Practitioner>>],
         name |-> <<[family |-> "Recorder", given |-> <<"NotReq">>]>>]
      a2 == _add_entry(a1.entry, a1.uuids, recorder, recorder_id)
      medication_not_requested ==
        [resourceType |-> "MedicationRequest",
         id |-> med_request_id,
         meta |-> [profile |-> <<QICORE_PROFILES.MedicationNotRequested>>],
         status |-> "completed",
         statusReason |-> [coding |-> <<[code |-> "183932001"]>>],
         intent |-> "order",
         doNotPerform |-> TRUE,
         reportedReference |-> [reference |-> "Practitioner/" \o practitioner_id],
         medicationCodeableConcept |-> [coding |-> <<[code |-> code]>>],
         subject |-> PatientRef(self),
         encounter |-> [reference |-> "Encounter/" \o encounter_id],
         authoredOn |-> authored_on,
         requester |-> [reference |-> "Practitioner/" \o practitioner_id],
         recorder |-> [reference |-> "Practitioner/" \o recorder_id],
         reasonCode |-> <<[coding |-> <<[code |-> "183932001"]>>]>>,
         reasonReference |->
           <<[reference |-> "Condition/cond-notreq-" \o first8(med_request_id)]>>]
  IN _add_entry(a2.entry, a2.uuids, medication_not_requested, med_request_id)

\* add_service_request: the requester, the performer, then the ServiceRequest.
add_service_request(self, entry, n, encounter_id, authored_on) ==
  LET service_request_id == _generate_id(n + 1)
      requester_id == _generate_id(n + 2)
      performer_id == _generate_id(n + 3)
      requester ==
        [resourceType |-> "Practitioner",
         id |-> requester_id,
         meta |-> [profile |-> <<QICORE_PROFILES.Practitioner>>],
         name |-> <<[family |-> "Requester", given |-> <<"Dr">>]>>]
      a1 == _add_entry(entry, n + 3, requester, requester_id)
      performer ==
        [resourceType |-> "Practitioner",
         id |-> performer_id,
         meta |-> [profile |-> <<QICORE_PROFILES.Practitioner>>],
         name |-> <<[family |-> "Performer", given |-> <<"Lab">>]>>]
      a2 == _add_entry(a1.entry, a1.uuids, performer, performer_id)
      service_request ==
        [resourceType |-> "ServiceRequest",
         id |-> service_request_id,
         meta |-> [profile |-> <<QICORE_PROFILES.ServiceRequest>>],
         basedOn |-> <<[reference |-> "CarePlan/cp-" \o first8(service_request_id)]>>,
         replaces |->
           <<[reference |-> "ServiceRequest/sr-old-" \o first8(service_request_id)]>>,
         status |-> "active",
         intent |-> "order",
         subject |-> PatientRef(self),
         encounter |-> [reference |-> "Encounter/" \o encounter_id],
         authoredOn |-> authored_on,
         requester |-> [reference |-> "Practitioner/" \o requester_id],
         performer |-> <<[reference |-> "Practitioner/" \o performer_id]>>,
         reasonCode |-> <<[coding |-> <<[code |-> "44054006"]>>]>>,
         reasonReference |->
           <<[reference |-> "Condition/cond-" \o first8(service_request_id)]>>,
         insurance |-> <<[reference |-> "Coverage/cov-" \o first8(service_request_id)]>>]
  IN _add_entry(a2.entry, a2.uuids, service_request, service_request_id)

\* add_service_not_requested: the requester, the performer, then the
\* ServiceRequest with doNotPerform.
add_service_not_requested(self, entry, n, encounter_id, authored_on) ==
  LET service_request_id == _generate_id(n + 1)
      requester_id == _generate_id(n + 2)
      performer_id == _generate_id(n + 3)
      requester ==
        [resourceType |-> "Practitioner",
         id |-> requester_id,
         meta |-> [profile |-> <<QICORE_PROFILES.Practitioner>>],
         name |-> <<[family |-> "Requester", given |-> <<"Dr">>]>>]
      a1 == _add_entry(entry, n + 3, requester, requester_id)
      performer ==
        [resourceType |-> "Practitioner",
         id |-> performer_id,
         meta |-> [profile |-> <<QICORE_PROFILES.Practitioner>>],
         name |-> <<[family |-> "Performer", given |-> <<"NotReq">>]>>]
      a2 == _add_entry(a1.entry, a1.uuids, performer, performer_id)
      service_not_requested ==
        [resourceType |-> "ServiceRequest",
         id |-> service_request_id,
         meta |-> [profile |-> <<QICORE_PROFILES.ServiceNotRequested>>],
         extension |-> <<[url |-> "qicore-doNotPerformReason",
                          valueCodeableConcept |->
                            [coding |-> <<[code |-> "105480006"]>>]]>>,
         basedOn |->
           <<[reference |-> "CarePlan/cp-notreq-" \o first8(service_request_id)]>>,
         replaces |->
           <<[reference |-> "ServiceRequest/sr-old-notreq-"
                            \o first8(service_request_id)]>>,
         status |-> "completed",
         intent |-> "order",
         doNotPerform |-> TRUE,
         subject |-> PatientRef(self),
         encounter |-> [reference |-> "Encounter/" \o encounter_id],
         authoredOn |-> authored_on,
         requester |-> [reference |-> "Practitioner/" \o requester_id],
         performer |-> <<[reference |-> "Practitioner/" \o performer_id]>>,
         reasonCode |-> <<[coding |-> <<[code |-> "105480006"]>>]>>,
         reasonReference |->
           <<[reference |-> "Condition/cond-notreq-" \o first8(service_request_id)]>>,
         insurance |->
           <<[reference |-> "Coverage/cov-notreq-" \o first8(service_request_id)]>>]
  IN _add_entry(a2.entry, a2.uuids, service_not_requested, service_request_id)

\* add_medication: one Medication.
add_medication(self, entry, n, medication_code) ==
  LET medication_id == _generate_id(n + 1)
      code == IF medication_code = None THEN default_medication_code
              ELSE medication_code
      medication ==
        [resourceType |-> "Medication",
         id |-> medication_id,
         meta |-> [profile |-> <<QICORE_PROFILES.Medication>>],
         code |-> [coding |-> <<[code |-> code]>>],
         status |-> "active",
         manufacturer |-> [reference |-> "Organization/pharma-org-123"]]
  IN _add_entry(entry, n + 1, medication, medication_id)

\* add_medication_request_with_reference: the requester, the recorder, then
\* the MedicationRequest that names the caller's Medication.
add_medication_request_with_reference(self, entry, n, encounter_id, authored_on, medication_id) ==
  LET med_request_id == _generate_id(n + 1)
      practitioner_id == _generate_id(n + 2)
      recorder_id == _generate_id(n + 3)
      practitioner ==
        [resourceType |-> "Practitioner",
         id |-> practitioner_id,
         meta |-> [profile |-> <<QICORE_PROFILES.Practitioner>>],
         name |-> <<[family |-> "Smith", given |-> <<"John">>]>>]
      a1 == _add_entry(entry, n + 3, practitioner, practitioner_id)
      recorder ==
        [resourceType |-> "Practitioner",
         id |-> recorder_id,
         meta |-> [profile |-> <<QICORE_PROFILES.Practitioner>>],
         name |-> <<[family |-> "Recorder", given |-> <<"Jane">>]>>]
      a2 == _add_entry(a1.entry, a1.uuids, recorder, recorder_id)
      medication_request ==
        [resourceType |-> "MedicationRequest",
         id |-> med_request_id,
         meta |-> [profile |-> <<QICORE_PROFILES.MedicationRequest>>],
         status |-> "active",
         intent |-> "order",
         reportedReference |-> [reference |-> "Practitioner/" \o practitioner_id],
         medicationReference |-> [reference |-> "Medication/" \o medication_id],
         subject |-> PatientRef(self),
         encounter |-> [reference |-> "Encounter/" \o encounter_id],
         authoredOn |-> authored_on,
         requester |-> [reference |-> "Practitioner/" \o practitioner_id],
         recorder |-> [reference |-> "Practitioner/" \o recorder_id],
         reasonReference |->
           <<[reference |-> "Condition/cond-" \o first8(med_request_id)]>>]
  IN _add_entry(a2.entry, a2.uuids, medication_request, med_request_id)

\* class_display_map of add_encounter_with_cc (it has no OBSENC).
cc_class_display_map(class_code) ==
  CASE class_code = "IMP" -> "inpatient encounter"
    [] class_code = "ACUTE" -> "inpatient acute"
    [] class_code = "NONAC" -> "inpatient non-acute"
    [] class_code = "SS" -> "short stay"
    [] class_code = "EMER" -> "emergency"
    [] class_code = "AMB" -> "ambulatory"
    [] OTHER -> "ambulatory"

\* A bug add_encounter_with_cc could have: the Condition carried inside the
\* Encounter instead of being appended and referenced.
add_encounter_with_cc_embedded(self, entry, n, start, end, status, class_code, class_display, location_id) ==
  LET encounter_id == _generate_id(n + 1)
      condition_id == _generate_id(n + 2)
      encounter ==
        [resourceType |-> "Encounter",
         id |-> encounter_id,
         meta |-> [profile |-> <<QICORE_PROFILES.Encounter>>],
         subject |-> PatientRef(self),
         period |-> [start |-> start, end |-> end],
         diagnosis |->
           <<[condition |-> [resourceType |-> "Condition", id |-> condition_id,
                             subject |-> PatientRef(self)],
              use |-> "CC", rank |-> 1]>>]
  IN _add_entry(entry, n + 2, encounter, encounter_id)

\* add_encounter_with_cc: the chief-complaint Condition, then the Encounter
\* whose diagnosis names it.  The encounter id is drawn first.
add_encounter_with_cc(self, entry, n, start, end, status, class_code, class_display, location_id) ==
  LET encounter_id == _generate_id(n + 1)
      display == IF class_display = None THEN cc_class_display_map(class_code)
                 ELSE class_display
      condition_id == _generate_id(n + 2)
      condition ==
        [resourceType |-> "Condition",
         id |-> condition_id,
         meta |-> [profile |-> <<QICORE_PROFILES.Condition>>],
         clinicalStatus |-> [coding |-> <<[code |-> "active"]>>],
         subject |-> PatientRef(self),
         onsetDateTime |-> start]
      a1 == _add_entry(entry, n + 2, condition, condition_id)
      base ==
        [resourceType |-> "Encounter",
         id |-> encounter_id,
         meta |-> [profile |-> <<QICORE_PROFILES.Encounter>>],
         identifier |-> <<[system |-> MADIE_BASE_URL \o "/encounter-id",
                           value |-> encounter_id]>>,
         status |-> status,
         class |-> [code |-> class_code, display |-> display],
         subject |-> PatientRef(self),
         period |-> [start |-> start, end |-> end],
         diagnosis |-> <<[condition |-> [reference |-> "Condition/" \o condition_id],
                          use |-> "CC", rank |-> 1]>>]
      located ==
        [resourceType |-> "Encounter",
         id |-> encounter_id,
         meta |-> [profile |-> <<QICORE_PROFILES.Encounter>>],
         identifier |-> <<[system |-> MADIE_BASE_URL \o "/encounter-id",
                           value |-> encounter_id]>>,
         status |-> status,
         class |-> [code |-> class_code, display |-> display],
         subject |-> PatientRef(self),
         period |-> [start |-> start, end |-> end],
         diagnosis |-> <<[condition |-> [reference |-> "Condition/" \o condition_id],
                          use |-> "CC", rank |-> 1]>>,
         location |-> <<[location |-> [reference |-> "Location/" \o location_id],
                         status |-> "active",
                         period |-> [start |-> start, end |-> end]]>>]
      encounter == IF location_id # None THEN located ELSE base
  IN _add_entry(a1.entry, a1.uuids, encounter, encounter_id)

\* add_observation_full: Specimen, Device, Practitioner and ServiceRequest,
\* then the Observation that references all four.
add_observation_full(self, entry, n, encounter_id, category, value, unit) ==
  LET observation_id == _generate_id(n + 1)
      specimen_id == _generate_id(n + 2)
      device_id == _generate_id(n + 3)
      performer_id == _generate_id(n + 4)
      service_request_id == _generate_id(n + 5)
      profile == IF category = "laboratory" THEN QICORE_PROFILES.ObservationLab
                 ELSE QICORE_PROFILES.SimpleObservation
      specimen ==
        [resourceType |-> "Specimen",
         id |-> specimen_id,
         meta |-> [profile |-> <<USCORE_PROFILES.Specimen>>],
         subject |-> PatientRef(self)]
      a1 == _add_entry(entry, n + 5, specimen, specimen_id)
      device ==
        [resourceType |-> "Device",
         id |-> device_id,
         meta |-> [profile |-> <<QICORE_PROFILES.Device>>],
         patient |-> PatientRef(self)]
      a2 == _add_entry(a1.entry, a1.uuids, device, device_id)
      performer ==
        [resourceType |-> "Practitioner",
         id |-> performer_id,
         meta |-> [profile |-> <<QICORE_PROFILES.Practitioner>>],
         name |-> <<[family |-> "LabTech", given |-> <<"Sally">>]>>]
      a3 == _add_entry(a2.entry, a2.uuids, performer, performer_id)
      service_request ==
        [resourceType |-> "ServiceRequest",
         id |-> service_request_id,
         meta |-> [profile |-> <<QICORE_PROFILES.ServiceRequest>>],
         status |-> "completed",
         intent |-> "order",
         subject |-> PatientRef(self),
         encounter |-> [reference |-> "Encounter/" \o encounter_id]]
      a4 == _add_entry(a3.entry, a3.uuids, service_request, service_request_id)
      observation ==
        [resourceType |-> "Observation",
         id |-> observation_id,
         meta |-> [profile |-> <<profile>>],
         basedOn |-> <<[reference |-> "ServiceRequest/" \o service_request_id]>>,
         status |-> "final",
         category |-> <<[code |-> category]>>,
         subject |-> PatientRef(self),
         encounter |-> [reference |-> "Encounter/" \o encounter_id],
         performer |-> <<[reference |-> "Practitioner/" \o performer_id]>>,
         valueQuantity |-> [value |-> value, unit |-> unit, code |-> unit],
         specimen |-> [reference |-> "Specimen/" \o specimen_id],
         device |-> [reference |-> "Device/" \o device_id]]
  IN _add_entry(a4.entry, a4.uuids, observation, observation_id)

\* population_code_map of add_measure_report: the keys it knows.
population_keys ==
  {"initialPopulation", "denominator", "numerator", "denominatorExclusion",
   "denominatorException", "numeratorExclusion", "measurePopulation",
   "measurePopulationExclusion"}

\* population_code_map[pop_key][0]
population_code(pop_key) ==
  CASE pop_key = "initialPopulation" -> "initial-population"
    [] pop_key = "denominator" -> "denominator"
    [] pop_key = "numerator" -> "numerator"
    [] pop_key = "denominatorExclusion" -> "denominator-exclusion"
    [] pop_key = "denominatorException" -> "denominator-exception"
    [] pop_key = "numeratorExclusion" -> "numerator-exclusion"
    [] pop_key = "measurePopulation" -> "measure-population"
    [] pop_key = "measurePopulationExclusion" -> "measure-population-exclusion"

\* A bug the population loop could have: a key outside the map kept, its
\* own name standing for the code.
build_populations_keep_unknown(items) ==
  [k \in 1..Len(items) |->
     [id |-> items[k][1] \o "_1",
      code |-> [coding |-> <<[code |-> IF items[k][1] \in population_keys
                                        THEN population_code(items[k][1])
                                        ELSE items[k][1]]>>],
      count |-> items[k][2]]]

RECURSIVE build_populations(_)
\* The loop over expected_populations.items().
build_populations(items) ==
  IF items = <<>> THEN <<>>
  ELSE LET pop_key == Head(items)[1]
           count == Head(items)[2]
       IN (IF pop_key \in population_keys
           THEN <<[id |-> pop_key \o "_1",
                   code |-> [coding |-> <<[code |-> population_code(pop_key)]>>],
                   count |-> count]>>
           ELSE <<>>) \o build_populations(Tail(items))

\* The loop that collects evaluatedResource: one reference per entry, built
\* from the resource's own resourceType and id.
evaluated_resources(entry) ==
  [k \in 1..Len(entry) |->
     [reference |-> entry[k].resource.resourceType \o "/" \o entry[k].resource.id]]

\* A bug add_measure_report could have: the inventory taken after the
\* report itself was appended.
add_measure_report_after_append(self, entry, n, description, measure_url, period_start, period_end, expected_populations) ==
  LET measure_report_id == _generate_id(n + 1)
      stub == [resourceType |-> "MeasureReport", id |-> measure_report_id]
      a0 == _add_entry(entry, n + 2, stub, measure_report_id)
      measure_report ==
        [resourceType |-> "MeasureReport",
         id |-> measure_report_id,
         meta |-> [profile |-> <<CQFM_PROFILES.MeasureReport>>],
         evaluatedResource |-> evaluated_resources(a0.entry)]
  IN _add_entry(entry, n + 2, measure_report, measure_report_id)

\* add_measure_report: inventory the entries present, then append the report.
add_measure_report(self, entry, n, description, measure_url, period_start, period_end, expected_populations) ==
  LET measure_report_id == _generate_id(n + 1)
      parameters_id == _generate_id(n + 2) \o "-parameters"
      items == IF expected_populations = NoDict THEN << <<"initialPopulation", 1>> >>
               ELSE expected_populations.items
      populations == build_populations(items)
      measure_report ==
        [resourceType |-> "MeasureReport",
         id |-> measure_report_id,
         meta |-> [profile |-> <<CQFM_PROFILES.MeasureReport>>],
         contained |-> <<[resourceType |-> "Parameters",
                          id |-> parameters_id,
                          parameter |-> <<[name |-> "subject",
                                           valueString |-> self.patient_id]>>]>>,
         extension |-> <<[url |-> "cqf-inputParameters",
                          valueReference |-> [reference |-> "#" \o parameters_id]],
                         [url |-> "cqfm-testCaseDescription",
                          valueMarkdown |-> description]>>,
         status |-> "complete",
         type |-> "individual",
         measure |-> measure_url,
         period |-> [start |-> period_start, end |-> period_end],
         group |-> <<[id |-> "Group_1", population |-> populations]>>,
         evaluatedResource |-> evaluated_resources(entry)]
  IN _add_entry(entry, n + 2, measure_report, measure_report_id)

\* ---------------------------------------------------------- MADiEExporter

\* MADiEExporter("ACHMeasureMing", "0.0.000"): the fields export reads.
exporter ==
  [measure_name |-> "ACHMeasureMing",
   version |-> "0.0.000",
   measure_url |-> "https://madie.cms.gov/Measure/" \o "ACHMeasureMing",
   measurement_period_start |-> "2022-01-01",
   measurement_period_end |-> "2022-01-31"]

\* The generator_func of a test case registered as `lambda: gen` (or through
\* add_test_case_from_generator): calling it returns the caller's generator.
lambda_gen == "lambda: gen"

\* add_test_case: the registered list after the call.  (The series names of
\* the model contain "Fail" exactly when they are in FailSeries.)
FailSeries == {"QualEncFail", "FailQualEnc"}

\* A bug the inference could have: the series name compared without regard
\* to case.
add_test_case_any_case(cases, generator_func, series, title, description, expected_populations) ==
  LET pops == IF expected_populations = NoDict
              THEN (IF series \in FailSeries \cup {"QualEncfail"}
                    THEN Dict(<< <<"initialPopulation", 0>> >>)
                    ELSE Dict(<< <<"initialPopulation", 1>> >>))
              ELSE expected_populations
  IN Append(cases, [generator_func |-> generator_func,
                    series |-> series,
                    title |-> title,
                    description |-> description,
                    expected_populations |-> pops])

add_test_case(cases, generator_func, series, title, description, expected_populations) ==
  LET pops == IF expected_populations = NoDict
              THEN (IF series \in FailSeries
                    THEN Dict(<< <<"initialPopulation", 0>> >>)
                    ELSE Dict(<< <<"initialPopulation", 1>> >>))
              ELSE expected_populations
  IN Append(cases, [generator_func |-> generator_func,
                    series |-> series,
                    title |-> title,
                    description |-> description,
                    expected_populations |-> pops])

\* A bug the Patient rewrite could have: the identifier values left as they were.
rewrite_patient_keep_identifier(e, patient_id, series, title) ==
  LET r1 == [e.resource EXCEPT !.id = patient_id]
      r2 == IF "name" \in DOMAIN r1
            THEN [r1 EXCEPT !.name = <<[family |-> series, given |-> <<title>>]>>]
            ELSE r1
  IN [fullUrl |-> "https://madie.cms.gov/Patient/" \o patient_id,
      resource |-> r2,
      request |-> [e.request EXCEPT !.url = "Patient/" \o patient_id]]

\* A bug the Patient rewrite could have: fullUrl left as it was.
rewrite_patient_keep_fullUrl(e, patient_id, series, title) ==
  LET r1 == [e.resource EXCEPT !.id = patient_id]
      r2 == IF "identifier" \in DOMAIN r1
            THEN [r1 EXCEPT !.identifier =
                    [k \in 1..Len(r1.identifier) |->
                       [r1.identifier[k] EXCEPT !.value = patient_id]]]
            ELSE r1
      r3 == IF "name" \in DOMAIN r2
            THEN [r2 EXCEPT !.name = <<[family |-> series, given |-> <<title>>]>>]
            ELSE r2
  IN [fullUrl |-> e.fullUrl,
      resource |-> r3,
      request |-> [e.request EXCEPT !.url = "Patient/" \o patient_id]]

\* _update_patient_references, the branch for a Patient resource: id,
\* fullUrl, request url, every identifier value and the name.
rewrite_patient(e, patient_id, series, title) ==
  LET r1 == [e.resource EXCEPT !.id = patient_id]
      r2 == IF "identifier" \in DOMAIN r1
            THEN [r1 EXCEPT !.identifier =
                    [k \in 1..Len(r1.identifier) |->
                       [r1.identifier[k] EXCEPT !.value = patient_id]]]
            ELSE r1
      r3 == IF "name" \in DOMAIN r2
            THEN [r2 EXCEPT !.name = <<[family |-> series, given |-> <<title>>]>>]
            ELSE r2
  IN [fullUrl |-> "https://madie.cms.gov/Patient/" \o patient_id,
      resource |-> r3,
      request |-> [e.request EXCEPT !.url = "Patient/" \o patient_id]]

\* A bug the reference rewrite could have: beneficiary forgotten.
rewrite_references_no_beneficiary(resource, is_patient, patient_id) ==
  LET ref == "Patient/" \o patient_id
      r1 == IF ~is_patient /\ "subject" \in DOMAIN resource
            THEN [resource EXCEPT !.subject.reference = ref]
            ELSE resource
  IN IF "patient" \in DOMAIN r1
     THEN [r1 EXCEPT !.patient.reference = ref]
     ELSE r1

\* A bug the reference rewrite could have: every field that names the
\* patient rewritten, policyHolder and subscriber included.
rewrite_references_all_fields(resource, is_patient, patient_id) ==
  LET ref == "Patient/" \o patient_id
      r1 == IF ~is_patient /\ "subject" \in DOMAIN resource
            THEN [resource EXCEPT !.subject.reference = ref]
            ELSE resource
      r2 == IF "beneficiary" \in DOMAIN r1
            THEN [r1 EXCEPT !.beneficiary.reference = ref]
            ELSE r1
      r3 == IF "patient" \in DOMAIN r2
            THEN [r2 EXCEPT !.patient.reference = ref]
            ELSE r2
      r4 == IF "policyHolder" \in DOMAIN r3
            THEN [r3 EXCEPT !.policyHolder.reference = ref]
            ELSE r3
  IN IF "subscriber" \in DOMAIN r4
     THEN [r4 EXCEPT !.subscriber.reference = ref]
     ELSE r4

\* _update_patient_references, the reference fields of one resource: subject
\* is the elif of the Patient branch, beneficiary and patient are tested for
\* every resource.  (isinstance(resource["patient"], dict) holds of every
\* resource the factories build: "patient" is always a reference dict.)
rewrite_references(resource, is_patient, patient_id) ==
  LET ref == "Patient/" \o patient_id
      r1 == IF ~is_patient /\ "subject" \in DOMAIN resource
            THEN [resource EXCEPT !.subject.reference = ref]
            ELSE resource
      r2 == IF "beneficiary" \in DOMAIN r1
            THEN [r1 EXCEPT !.beneficiary.reference = ref]
            ELSE r1
  IN IF "patient" \in DOMAIN r2
     THEN [r2 EXCEPT !.patient.reference = ref]
     ELSE r2

\* The body of _update_patient_references' loop for one entry.
update_entry(e, patient_id, series, title) ==
  LET is_patient == e.resource.resourceType = "Patient"
      e1 == IF is_patient THEN rewrite_patient(e, patient_id, series, title) ELSE e
  IN [e1 EXCEPT !.resource = rewrite_references(e1.resource, is_patient, patient_id)]

\* A bug _update_patient_references could have: the entry list rebuilt in
\* the opposite order.
update_patient_references_reversed(entry, patient_id, series, title) ==
  [k \in 1..Len(entry) |->
     update_entry(entry[Len(entry) + 1 - k], patient_id, series, title)]

\* _update_patient_references(gen, patient_id, series, title): the entry
\* list of gen.bundle after the loop (the entries are rewritten in place).
_update_patient_references(entry, patient_id, series, title) ==
  [k \in 1..Len(entry) |-> update_entry(entry[k], patient_id, series, title)]

\* -------------------------------------------------------------- VSACClient

MAX_RETRIES == 3

\* VSACClient(api_key, max_retries=max_retries): the fields _make_request
\* reads and writes, and no request under way; a client built without
\* max_retries is VSACClient(MAX_RETRIES).  `log` keeps what each
\* requests.get of the current call met, `retries0` the 'retries' statistic
\* the call started with.
VSACClient(max_retries) ==
  [max_retries |-> max_retries,
   retries |-> 0,
   pc |-> "idle",
   attempt |-> 0,
   last_exception |-> None,
   result |-> [kind |-> "none"],
   log |-> <<>>,
   retries0 |-> 0]

\* The Retry-After headers of the model: none, a number of seconds, an
\* HTTP date.
RetryAfterHeaders == {None, "5", "Wed, 21 Oct 2026 07:28:00 GMT"}

\* int(response.headers.get('Retry-After', 60)): the integer, or ValueError
\* for a header that is not an integer literal.
retry_after_of(header) ==
  CASE header = None -> [ok |-> TRUE, value |-> 60]
    [] header = "5" -> [ok |-> TRUE, value |-> 5]
    [] OTHER -> [ok |-> FALSE]

\* What one requests.get can meet: a response, or one of the exceptions
\* _make_request catches.
Outcomes ==
  {[kind |-> "response", status_code |-> 200, retry_after |-> None],
   [kind |-> "response", status_code |-> 404, retry_after |-> None],
   [kind |-> "Timeout"], [kind |-> "ConnectionError"], [kind |-> "RequestException"]}
  \cup {[kind |-> "response", status_code |-> 429, retry_after |-> h] : h \in RetryAfterHeaders}

\* One iteration of `for attempt in range(self.max_retries + 1)`: the client
\* after it, the request having met `outcome`.
make_request_attempt(c, outcome) ==
  LET logged == [c EXCEPT !.log = Append(@, outcome)]
      Finish(result) == [logged EXCEPT !.pc = "done", !.result = result]
  IN IF outcome.kind = "response"
     THEN IF outcome.status_code = 429
          THEN LET retry_after == retry_after_of(outcome.retry_after)
               IN IF ~retry_after.ok
                  THEN Finish([kind |-> "raise", exception |-> "ValueError"])
                  ELSE IF c.attempt < c.max_retries
                  THEN [logged EXCEPT !.retries = @ + 1, !.attempt = @ + 1]
                  ELSE Finish([kind |-> "raise", exception |-> "VSACRateLimitError",
                               retry_after |-> retry_after.value])
          ELSE Finish([kind |-> "return", status_code |-> outcome.status_code])
     ELSE LET failed == [logged EXCEPT !.last_exception = "VSACConnectionError"]
          IN IF c.attempt < c.max_retries
             THEN [failed EXCEPT !.retries = @ + 1, !.attempt = @ + 1]
             ELSE [failed EXCEPT !.attempt = @ + 1]

\* ------------------------------------------------------------ the machine

\* No generator: export's local `gen` outside an iteration.
NoGen == [none |-> TRUE]

\* The caller has built one generator, FHIRBundleGenerator("TestCaseName")
\* or FHIRBundleGenerator("TestCaseName", patient_id="pat-1"), and an
\* exporter with no test case.
Init ==
  \E patient_id \in {None, "pat-1"} :
    LET c == FHIRBundleGenerator(0, 1, "TestCaseName", patient_id)
    IN /\ source_gen = c.self
       /\ heap = <<c.bundle>>
       /\ uuids = c.uuids
       /\ last = [op |-> "__init__", args |-> [patient_id |-> patient_id],
                  ret |-> None, before |-> <<>>]
       /\ test_cases = <<>>
       /\ pc = "idle"
       /\ i = 0
       /\ gen = NoGen
       /\ saved = <<>>
       /\ ops = 0
       /\ vsac = VSACClient(MAX_RETRIES)

\* A factory call `op` with arguments `args` on the caller's generator, its
\* result being r.
Call(op, args, r) ==
  /\ pc = "idle"
  /\ heap' = [heap EXCEPT ![source_gen.bundle].entry = r.entry]
  /\ uuids' = r.uuids
  /\ last' = [op |-> op, args |-> args, ret |-> r.ret, before |-> SourceEntries]
  /\ ops' = ops + 1
  /\ UNCHANGED <<source_gen, exportVars, vsac>>

AddPatient(given_name, gender) ==
  Call("add_patient", [given_name |-> given_name, gender |-> gender],
       add_patient(source_gen, SourceEntries, uuids, given_name, None, gender,
                   "1980-01-01"))

AddEncounter(start, end, class_code, class_display, location_id) ==
  Call("add_encounter", [start |-> start, end |-> end, class_code |-> class_code, class_display |-> class_display, location_id |-> location_id],
       add_encounter(source_gen, SourceEntries, uuids, start, end, "finished",
                     class_code, class_display, location_id))

AddCoverage ==
  Call("add_coverage", [period_start |-> "2022-01-01"],
       add_coverage(source_gen, SourceEntries, uuids, "2022-01-01", "2022-12-31"))

AddObservation(encounter_id, category) ==
  Call("add_observation", [encounter_id |-> encounter_id, category |-> category],
       add_observation(source_gen, SourceEntries, uuids, encounter_id, category,
                       100, "mg/dL"))

AddBloodCulture(encounter_id, specimen_id) ==
  Call("add_blood_culture", [encounter_id |-> encounter_id, specimen_id |-> specimen_id],
       add_blood_culture(source_gen, SourceEntries, uuids, encounter_id,
                         "3092008", specimen_id))

AddMedicationAdministration(encounter_id, medication_code) ==
  Call("add_medication_administration", [encounter_id |-> encounter_id, medication_code |-> medication_code],
       add_medication_administration(source_gen, SourceEntries, uuids,
                                     encounter_id, medication_code))

AddMedicationRequest(encounter_id, medication_code) ==
  Call("add_medication_request", [encounter_id |-> encounter_id, medication_code |-> medication_code],
       add_medication_request(source_gen, SourceEntries, uuids, encounter_id,
                              medication_code))

AddProcedure(encounter_id) ==
  Call("add_procedure", [encounter_id |-> encounter_id],
       add_procedure(source_gen, SourceEntries, uuids, encounter_id,
                     "2022-01-06T09:00:00.000Z", "2022-01-06T10:00:00.000Z"))

AddMeasureReport(expected_populations) ==
  Call("add_measure_report", [expected_populations |-> expected_populations],
       add_measure_report(source_gen, SourceEntries, uuids, "description",
                          exporter.measure_url, exporter.measurement_period_start,
                          exporter.measurement_period_end, expected_populations))

AddLocation ==
  Call("add_location", [location_type |-> None],
       add_location(source_gen, SourceEntries, uuids))

AddCondition(encounter_id) ==
  Call("add_condition", [encounter_id |-> encounter_id],
       add_condition(source_gen, SourceEntries, uuids, encounter_id, "active"))

AddObservationDataAbsent(encounter_id, category) ==
  Call("add_observation_data_absent", [encounter_id |-> encounter_id, category |-> category],
       add_observation_data_absent(source_gen, SourceEntries, uuids, encounter_id,
                                   category))

AddMedicationNotRequested(encounter_id) ==
  Call("add_medication_not_requested", [encounter_id |-> encounter_id],
       add_medication_not_requested(source_gen, SourceEntries, uuids, encounter_id,
                                    "2022-01-06T08:00:00.000Z", None))

AddServiceRequest(encounter_id) ==
  Call("add_service_request", [encounter_id |-> encounter_id],
       add_service_request(source_gen, SourceEntries, uuids, encounter_id,
                           "2022-01-06T08:00:00.000Z"))

AddServiceNotRequested(encounter_id) ==
  Call("add_service_not_requested", [encounter_id |-> encounter_id],
       add_service_not_requested(source_gen, SourceEntries, uuids, encounter_id,
                                 "2022-01-06T08:00:00.000Z"))

AddMedication ==
  Call("add_medication", [medication_code |-> None],
       add_medication(source_gen, SourceEntries, uuids, None))

AddMedicationRequestWithReference(encounter_id, medication_id) ==
  Call("add_medication_request_with_reference", [encounter_id |-> encounter_id, medication_id |-> medication_id],
       add_medication_request_with_reference(source_gen, SourceEntries, uuids,
                                             encounter_id, "2022-01-06T08:00:00.000Z",
                                             medication_id))

AddEncounterWithCc(location_id) ==
  Call("add_encounter_with_cc", [location_id |-> location_id],
       add_encounter_with_cc(source_gen, SourceEntries, uuids,
                             "2022-01-05T08:00:00.000Z", "2022-01-10T12:00:00.000Z",
                             "finished", "IMP", None, location_id))

AddObservationFull(encounter_id, category) ==
  Call("add_observation_full", [encounter_id |-> encounter_id, category |-> category],
       add_observation_full(source_gen, SourceEntries, uuids, encounter_id, category,
                            100, "mg/dL"))

\* self._add_entry(resource, resource_id) called on its own.
AddEntry(resource, resource_id) ==
  Call("_add_entry", [resource |-> resource, resource_id |-> resource_id],
       _add_entry(SourceEntries, uuids, resource, resource_id))

\* The encounter ids a caller can pass: the id of an Encounter it was given
\* back, or one that names no entry.
EncounterIds ==
  {SourceEntries[k].resource.id :
     k \in {j \in 1..Len(SourceEntries) :
              SourceEntries[j].resource.resourceType = "Encounter"}}
  \cup {"enc-unknown"}

\* The ids of the entries of the caller's bundle whose resource has a type.
IdsOfType(type) ==
  {SourceEntries[k].resource.id :
     k \in {j \in 1..Len(SourceEntries) : SourceEntries[j].resource.resourceType = type}}

\* The medication ids a caller can pass: one add_medication returned, or one
\* that names no entry.
MedicationIds == IdsOfType("Medication") \cup {"med-unknown"}

\* The location ids a caller can pass: none, one add_location returned, or
\* one that names no entry.
LocationIds == IdsOfType("Location") \cup {None, "loc-unknown"}

\* exporter.add_test_case(lambda: gen, series, title, description, ...)
AddTestCase(series, title, expected_populations) ==
  /\ pc = "idle"
  /\ test_cases' = add_test_case(test_cases, lambda_gen, series, title,
                                 "Tests " \o title, expected_populations)
  /\ ops' = ops + 1
  /\ UNCHANGED <<heap, source_gen, uuids, last, pc, i, gen, saved, vsac>>

\* export(), up to the loop over the test cases.
Export ==
  /\ pc = "idle"
  /\ pc' = "loop"
  /\ i' = 1
  /\ ops' = ops + 1
  /\ UNCHANGED <<heap, source_gen, uuids, last, test_cases, gen, saved, vsac>>

\* One iteration, up to `gen.bundle = source_gen.bundle`: the patient id and
\* the test case id are drawn, gen is constructed (drawing its bundle id),
\* generator_func() returns the caller's generator, and gen.bundle is made
\* to name the bundle of that generator.  The bundle gen was constructed
\* with is not reachable afterwards and is not kept.
ExportBind ==
  /\ pc = "loop"
  /\ i <= Len(test_cases)
  /\ LET tc == test_cases[i]
         patient_id == uuid4(uuids + 1)
         c == FHIRBundleGenerator(uuids + 2, Len(heap) + 1,
                                  tc.series \o "_" \o tc.title, patient_id)
         returned_gen == source_gen
     IN /\ gen' = [c.self EXCEPT !.bundle = returned_gen.bundle]
        /\ uuids' = c.uuids
  /\ pc' = "bound"
  /\ UNCHANGED <<heap, source_gen, last, test_cases, i, saved, ops, vsac>>

\* A bug export could have: the bundle handed on without re-identification.
ExportUpdateSkipped ==
  /\ pc = "bound"
  /\ pc' = "rekeyed"
  /\ UNCHANGED <<heap, source_gen, uuids, last, test_cases, i, gen, saved, ops, vsac>>

\* self._update_patient_references(gen, patient_id, series, title)
ExportUpdate ==
  /\ pc = "bound"
  /\ heap' = [heap EXCEPT ![gen.bundle].entry =
                _update_patient_references(@, gen.patient_id,
                                           test_cases[i].series, test_cases[i].title)]
  /\ pc' = "rekeyed"
  /\ UNCHANGED <<source_gen, uuids, last, test_cases, i, gen, saved, ops, vsac>>

\* gen.patient_id = patient_id; gen.add_measure_report(...)
ExportReport ==
  /\ pc = "rekeyed"
  /\ LET r == add_measure_report(gen, heap[gen.bundle].entry, uuids,
                                 test_cases[i].description, exporter.measure_url,
                                 exporter.measurement_period_start,
                                 exporter.measurement_period_end,
                                 test_cases[i].expected_populations)
     IN /\ heap' = [heap EXCEPT ![gen.bundle].entry = r.entry]
        /\ uuids' = r.uuids
  /\ pc' = "reported"
  /\ UNCHANGED <<source_gen, last, test_cases, i, gen, saved, ops, vsac>>

\* gen.save(filepath) and the end of the iteration.
ExportSave ==
  /\ pc = "reported"
  /\ saved' = Append(saved,
       [dir |-> gen.patient_id,
        filename |-> exporter.measure_name \o "-v" \o exporter.version \o "-"
                     \o test_cases[i].series \o test_cases[i].title \o ".json",
        bundle |-> heap[gen.bundle]])
  /\ gen' = NoGen
  /\ i' = i + 1
  /\ pc' = "loop"
  /\ UNCHANGED <<heap, source_gen, uuids, last, test_cases, ops, vsac>>

\* The loop is over: export() returns.
ExportReturn ==
  /\ pc = "loop"
  /\ i > Len(test_cases)
  /\ pc' = "idle"
  /\ i' = 0
  /\ UNCHANGED <<heap, source_gen, uuids, last, test_cases, gen, saved, ops, vsac>>

\* The caller may still act in Spec.
MayAct == ops < MaxOps

\* Spec: the caller's factory calls whose resources carry the fields that
\* re-identification reads, registration and export(), and export's steps.
Next ==
  \/ MayAct /\ AddPatient(None, "male")
  \/ MayAct /\ AddEncounter("2022-01-05T08:00:00.000Z", "2022-01-10T12:00:00.000Z",
                            "AMB", None, None)
  \/ MayAct /\ AddCoverage
  \/ MayAct /\ AddMedicationAdministration("enc-unknown", None)
  \/ MayAct /\ AddTestCase("QualEncPass", "EncInpatient", NoDict)
  \/ MayAct /\ Export
  \/ ExportBind
  \/ ExportUpdate
  \/ ExportReport
  \/ ExportSave
  \/ ExportReturn

Spec == Init /\ [][Next]_vars

\* The caller may still call a factory operation in SpecFactory.
MayCall == ops < MaxCalls

\* SpecFactory: the factory calls alone, their arguments drawn from small sets.
NextFactory ==
  \/ \E given_name \in {None, "Ann"} : MayCall /\ AddPatient(given_name, "female")
  \/ \E class_code \in {"AMB", "IMP", "XX"}, class_display \in {None, "custom"} :
       MayCall /\ AddEncounter("2022-01-05T08:00:00.000Z", "2022-01-10T12:00:00.000Z",
                               class_code, class_display, None)
  \/ MayCall /\ AddCoverage
  \/ \E e \in EncounterIds, category \in {"laboratory", "vital-signs", "survey"} :
       MayCall /\ AddObservation(e, category)
  \/ \E e \in EncounterIds, specimen_id \in {None, "spec-1"} :
       MayCall /\ AddBloodCulture(e, specimen_id)
  \/ \E e \in EncounterIds, code \in {None, "311036"} :
       MayCall /\ AddMedicationAdministration(e, code)
  \/ \E e \in EncounterIds, code \in {None, "311036"} :
       MayCall /\ AddMedicationRequest(e, code)
  \/ \E e \in EncounterIds : MayCall /\ AddProcedure(e)
  \/ \E pops \in {NoDict,
                  Dict(<< <<"initialPopulation", 1>>, <<"bogusKey", 5>> >>),
                  Dict(<< <<"numerator", 0>>, <<"denominator", 1>> >>)} :
       MayCall /\ AddMeasureReport(pops)

SpecFactory == Init /\ [][NextFactory]_vars

\* SpecVariants: the positive and the negation operations for Observation,
\* MedicationRequest and ServiceRequest, on encounters the caller added.
NextVariants ==
  \/ MayCall /\ AddEncounter("2022-01-05T08:00:00.000Z", "2022-01-10T12:00:00.000Z",
                             "IMP", None, None)
  \/ \E e \in EncounterIds, category \in {"laboratory", "vital-signs", "survey"} :
       MayCall /\ AddObservation(e, category)
  \/ \E e \in EncounterIds, category \in {"laboratory", "vital-signs", "exam"} :
       MayCall /\ AddObservationDataAbsent(e, category)
  \/ \E e \in EncounterIds : MayCall /\ AddMedicationRequest(e, None)
  \/ \E e \in EncounterIds : MayCall /\ AddMedicationNotRequested(e)
  \/ \E e \in EncounterIds : MayCall /\ AddServiceRequest(e)
  \/ \E e \in EncounterIds : MayCall /\ AddServiceNotRequested(e)

SpecVariants == Init /\ [][NextVariants]_vars

\* SpecRefs: the operations that take the id of another resource, the
\* operations that make those resources, and operations with auxiliaries.
NextRefs ==
  \/ MayCall /\ AddPatient(None, "female")
  \/ MayCall /\ AddLocation
  \/ \E location_id \in LocationIds :
       MayCall /\ AddEncounter("2022-01-05T08:00:00.000Z", "2022-01-10T12:00:00.000Z",
                               "IMP", None, location_id)
  \/ \E location_id \in LocationIds : MayCall /\ AddEncounterWithCc(location_id)
  \/ \E e \in EncounterIds : MayCall /\ AddCondition(e)
  \/ MayCall /\ AddMedication
  \/ \E e \in EncounterIds, m \in MedicationIds :
       MayCall /\ AddMedicationRequestWithReference(e, m)
  \/ \E e \in EncounterIds : MayCall /\ AddObservation(e, "laboratory")
  \/ \E e \in EncounterIds : MayCall /\ AddObservationFull(e, "laboratory")
  \/ \E e \in EncounterIds : MayCall /\ AddMedicationAdministration(e, None)

SpecRefs == Init /\ [][NextRefs]_vars

\* SpecEncounter: add_encounter alone, over every class code of its map and
\* one outside it, with and without a display, the period in order and
\* reversed.
NextEncounter ==
  \E class_code \in {"IMP", "ACUTE", "NONAC", "SS", "EMER", "OBSENC", "AMB", "XX"},
     class_display \in {None, "custom"},
     period \in {<<"2022-01-05T08:00:00.000Z", "2022-01-10T12:00:00.000Z">>,
                 <<"2022-01-10T12:00:00.000Z", "2022-01-05T08:00:00.000Z">>} :
    /\ ops < MaxEncounters
    /\ AddEncounter(period[1], period[2], class_code, class_display, None)

SpecEncounter == Init /\ [][NextEncounter]_vars

\* Resources about someone or something other than the generator's patient,
\* which a caller appends with _add_entry: an Observation of a Group, a
\* Device of another patient, a Coverage whose beneficiary is another patient.
ForeignResources ==
  {[resourceType |-> "Observation", id |-> "obs-group",
    status |-> "final", subject |-> [reference |-> "Group/grp-1"]],
   [resourceType |-> "Device", id |-> "dev-other",
    patient |-> [reference |-> "Patient/other-patient"]],
   [resourceType |-> "Coverage", id |-> "cov-other", status |-> "active",
    beneficiary |-> [reference |-> "Patient/other-patient"]]}

\* SpecForeign: a bundle that also holds resources of other subjects is
\* registered and exported.
NextForeign ==
  \/ ops < MaxForeignOps /\ AddPatient(None, "male")
  \/ \E resource \in ForeignResources :
       ops < MaxForeignOps /\ AddEntry(resource, resource.id)
  \/ ops < MaxForeignOps /\ AddTestCase("QualEncPass", "EncInpatient", NoDict)
  \/ ops < MaxForeignOps /\ Export
  \/ ExportBind
  \/ ExportUpdate
  \/ ExportReport
  \/ ExportSave
  \/ ExportReturn

SpecForeign == Init /\ [][NextForeign]_vars

\* The resources SpecAppend hands to _add_entry: with and without an id.
AppendResources ==
  {[resourceType |-> "Organization"],
   [resourceType |-> "Organization", id |-> "org-1"],
   [resourceType |-> "Basic", id |-> "basic-1"],
   [resourceType |-> "Basic", code |-> "note"]}

\* SpecAppend: _add_entry called directly, with and without a resource_id.
NextAppend ==
  \E resource \in AppendResources, resource_id \in {None, "rid-1"} :
    MayCall /\ AddEntry(resource, resource_id)

SpecAppend == Init /\ [][NextAppend]_vars

\* ----------------------------------------------------------------- claims

\* The entry list of the bundle export's gen names, gen.bundle["entry"].
GenEntries == heap[gen.bundle].entry

\* "{resourceType}/{id}" of an entry's own resource.
LocalRef(e) == e.resource.resourceType \o "/" \o e.resource.id

\* The indices of the entries of a list whose resource has the given type.
OfType(entry, type) == {k \in 1..Len(entry) : entry[k].resource.resourceType = type}

\* The step of export that runs _update_patient_references.
RekeyStep == pc = "bound" /\ pc' = "rekeyed"

\* The step of export that appends the MeasureReport.
ReportStep == pc = "rekeyed" /\ pc' = "reported"

\* The step of export that binds gen to the bundle generator_func returned.
BindStep == pc = "loop" /\ pc' = "bound"

\* The step of export that saves the bundle.
SaveStep == pc = "reported" /\ pc' = "loop"

\* C1: the resource ids of all entries of a bundle built by factory calls are
\* pairwise distinct.
C1_UniqueIds ==
  \A j, k \in 1..Len(SourceEntries) :
    j # k => SourceEntries[j].resource.id # SourceEntries[k].resource.id

\* C2: re-identification does not change the source generator's bundle: the
\* bundle of the generator that generator_func returned is the same after
\* _update_patient_references as before it.
C2_RekeyKeepsSource ==
  [][RekeyStep => heap'[source_gen.bundle] = heap[source_gen.bundle]]_vars

\* C3: after _update_patient_references with new id P2, no entry has a
\* subject, beneficiary or patient reference to a Patient id P the bundle
\* held before (P # P2), and every Patient entry has id P2.
C3_ReferentialClosure ==
  [][RekeyStep =>
       LET old == {heap[gen.bundle].entry[k].resource.id :
                     k \in OfType(heap[gen.bundle].entry, "Patient")}
           new == heap'[gen.bundle].entry
           P2 == gen.patient_id
       IN /\ \A k \in 1..Len(new) : \A P \in old \ {P2} :
               \A f \in {"subject", "beneficiary", "patient"} \cap DOMAIN new[k].resource :
                 new[k].resource[f].reference # "Patient/" \o P
          /\ \A k \in OfType(new, "Patient") : new[k].resource.id = P2
          /\ OfType(new, "Patient") = OfType(heap[gen.bundle].entry, "Patient")
    ]_vars

\* C3's case: a bundle with one Patient and resources that carry each of the
\* three reference fields has been re-identified.
C3_Witness ==
  /\ pc = "rekeyed"
  /\ Cardinality(OfType(GenEntries, "Patient")) = 1
  /\ \A f \in {"subject", "beneficiary", "patient"} :
       \E k \in 1..Len(GenEntries) : f \in DOMAIN GenEntries[k].resource

\* C4: a MeasureReport at position m lists exactly the m-1 entries before
\* it, the k-th reference being "{resourceType}/{id}" of the k-th entry, and
\* so neither itself nor an entry appended after it.
C4_MeasureReportCompleteness ==
  \A m \in OfType(SourceEntries, "MeasureReport") :
    LET refs == SourceEntries[m].resource.evaluatedResource
    IN /\ Len(refs) = m - 1
       /\ \A k \in 1..(m - 1) :
            /\ DOMAIN refs[k] = {"reference"}
            /\ refs[k].reference = SourceEntries[k].resource.resourceType \o "/"
                                   \o SourceEntries[k].resource.id
       /\ \A k \in 1..Len(refs) : refs[k].reference # LocalRef(SourceEntries[m])

\* C4's case: a MeasureReport synthesized with entries before it, and
\* entries appended after it.
C4_Witness ==
  \E m \in OfType(SourceEntries, "MeasureReport") :
    /\ m > 2
    /\ m < Len(SourceEntries)
    /\ Len(SourceEntries[m].resource.evaluatedResource) = m - 1

\* C5: the bundle export re-identified and the source generator's bundle do
\* not share state: appending the MeasureReport to the one leaves the other
\* as it was.
C5_ReportKeepsSource ==
  [][ReportStep => heap'[source_gen.bundle] = heap[source_gen.bundle]]_vars

\* C6: a factory operation only appends: the entry list before a step is a
\* proper prefix of the entry list after it, entry by entry.
C6_AppendOnly ==
  [][/\ Len(SourceEntries') > Len(SourceEntries)
     /\ \A k \in 1..Len(SourceEntries) : SourceEntries'[k] = SourceEntries[k]
    ]_vars

\* C6's case: a factory call was made on a bundle that already held entries.
C6_Witness ==
  /\ last.op # "__init__"
  /\ Len(last.before) > 0
  /\ Len(SourceEntries) > Len(last.before)

\* The resource types a factory operation appends, auxiliaries first and the
\* primary last, as C7 lists them.
C7_Appended(op) ==
  CASE op = "add_patient" -> <<"Practitioner", "Patient">>
    [] op = "add_encounter" -> <<"Encounter">>
    [] op = "add_coverage" -> <<"Coverage">>
    [] op = "add_observation" -> <<"Specimen", "Observation">>
    [] op = "add_blood_culture" -> <<"Specimen", "Observation">>
    [] op = "add_medication_administration" ->
         <<"Practitioner", "Device", "MedicationAdministration">>
    [] op = "add_medication_request" ->
         <<"Practitioner", "Practitioner", "MedicationRequest">>
    [] op = "add_procedure" -> <<"Location", "Procedure">>
    [] op = "add_measure_report" -> <<"MeasureReport">>

\* C7: a factory operation appends its auxiliary entries, then its primary
\* entry, and nothing else; the id it returns is the id of the last entry.
C7_AuxiliariesThenPrimary ==
  last.op # "__init__" =>
    LET n0 == Len(last.before)
        types == C7_Appended(last.op)
        primary == SourceEntries[Len(SourceEntries)].resource
    IN /\ Len(SourceEntries) = n0 + Len(types)
       /\ \A k \in 1..n0 : SourceEntries[k] = last.before[k]
       /\ \A k \in 1..Len(types) :
            SourceEntries[n0 + k].resource.resourceType = types[k]
       /\ primary.id = IF last.op = "add_blood_culture" THEN last.ret[1] ELSE last.ret

\* C7's case: add_medication_administration (two auxiliaries) was called on
\* a bundle that already held entries.
C7_Witness ==
  /\ last.op = "add_medication_administration"
  /\ Len(last.before) > 0
  /\ Len(SourceEntries) = Len(last.before) + 3

\* An entry's fullUrl and request agree with its own resource.
EntryConsistent(e) ==
  /\ e.fullUrl = "https://madie.cms.gov/" \o e.resource.resourceType \o "/"
                 \o e.resource.id
  /\ e.request.method = "PUT"
  /\ e.request.url = e.resource.resourceType \o "/" \o e.resource.id

\* C8: in every bundle, built by factory calls, re-identified, carrying the
\* MeasureReport or saved, every entry's fullUrl and request are those of its
\* own resource type and id.
C8_EntryConsistency ==
  /\ \A a \in DOMAIN heap : \A k \in 1..Len(heap[a].entry) :
       EntryConsistent(heap[a].entry[k])
  /\ \A s \in 1..Len(saved) : \A k \in 1..Len(saved[s].bundle.entry) :
       EntryConsistent(saved[s].bundle.entry[k])

\* C8's case: a saved bundle with a re-identified Patient and a MeasureReport.
C8_Witness ==
  \E s \in 1..Len(saved) :
    /\ \E k \in OfType(saved[s].bundle.entry, "Patient") :
         saved[s].bundle.entry[k].resource.id = saved[s].dir
    /\ OfType(saved[s].bundle.entry, "MeasureReport") # {}
    /\ OfType(saved[s].bundle.entry, "Coverage") # {}

\* C9: _update_patient_references gives every Patient entry the new id, the
\* fullUrl and request url of the new id, the new id as every identifier
\* value and the one name {family: series, given: [title]}; its other fields
\* stay as they were.
C9_PatientRewrite ==
  [][RekeyStep =>
       \A k \in OfType(heap[gen.bundle].entry, "Patient") :
         LET e0 == heap[gen.bundle].entry[k]
             e1 == heap'[gen.bundle].entry[k]
             P2 == gen.patient_id
         IN /\ e1.resource.id = P2
            /\ e1.fullUrl = "https://madie.cms.gov/Patient/" \o P2
            /\ e1.request.url = "Patient/" \o P2
            /\ e1.request.method = e0.request.method
            /\ \A j \in 1..Len(e1.resource.identifier) :
                 e1.resource.identifier[j].value = P2
            /\ e1.resource.name = <<[family |-> test_cases[i].series,
                                     given |-> <<test_cases[i].title>>]>>
            /\ DOMAIN e1.resource = DOMAIN e0.resource
            /\ \A f \in DOMAIN e0.resource \ {"id", "identifier", "name"} :
                 e1.resource[f] = e0.resource[f]
    ]_vars

\* C9's case: a Patient built by add_patient has been re-identified.
C9_Witness ==
  /\ pc = "rekeyed"
  /\ \E k \in OfType(GenEntries, "Patient") :
       /\ GenEntries[k].resource.id = gen.patient_id
       /\ GenEntries[k].resource.id # source_gen.patient_id
       /\ GenEntries[k].resource.name[1].family = "QualEncPass"
       /\ GenEntries[k].resource.gender = "male"

C12_KnownItems(items) == SelectSeq(items, LAMBDA it : it[1] \in population_keys)

\* C12: the MeasureReport add_measure_report builds has, in its one group,
\* one population per key of expected_populations that is one of the eight
\* known keys, in the mapping's key order, with the code of that key and the
\* caller's count; other keys leave no element.
C12_PopulationFiltering ==
  last.op = "add_measure_report" =>
    LET given == last.args.expected_populations
        items == IF given = NoDict THEN << <<"initialPopulation", 1>> >> ELSE given.items
        known == C12_KnownItems(items)
        report == SourceEntries[Len(SourceEntries)].resource
        population == report.group[1].population
    IN /\ report.id = last.ret
       /\ Len(report.group) = 1
       /\ Len(population) = Len(known)
       /\ \A k \in 1..Len(known) :
            /\ population[k].code.coding[1].code = population_code(known[k][1])
            /\ population[k].count = known[k][2]

\* C12's case: add_measure_report was called with {initialPopulation: 1,
\* bogusKey: 5} and the report has exactly one population.
C12_Witness ==
  /\ last.op = "add_measure_report"
  /\ last.args.expected_populations =
       Dict(<< <<"initialPopulation", 1>>, <<"bogusKey", 5>> >>)
  /\ Len(SourceEntries[Len(SourceEntries)].resource.group[1].population) = 1

\* The resource a factory call appended last: its primary resource.
Primary == SourceEntries[Len(SourceEntries)].resource

\* C13: the Observation of add_observation and of add_observation_data_absent
\* carries exactly one profile, chosen by category alone: the Lab profile for
\* "laboratory", the Clinical-Result profile for "vital-signs", the
\* Simple-Observation profile for any other category.
C13_ProfileByCategory ==
  last.op \in {"add_observation", "add_observation_data_absent"} =>
    /\ Primary.resourceType = "Observation"
    /\ Primary.id = last.ret
    /\ Primary.meta.profile =
         <<CASE last.args.category = "laboratory" ->
                  "http://hl7.org/fhir/us/qicore/StructureDefinition/qicore-observation-lab"
             [] last.args.category = "vital-signs" ->
                  "http://hl7.org/fhir/us/qicore/StructureDefinition/qicore-observation-clinical-result"
             [] OTHER ->
                  "http://hl7.org/fhir/us/qicore/StructureDefinition/qicore-simple-observation">>

\* C13's case: add_observation_data_absent with a category that is neither
\* laboratory nor vital-signs, on a bundle that already holds an Observation
\* add_observation made with another category.
C13_Witness ==
  /\ last.op = "add_observation_data_absent"
  /\ last.args.category = "exam"
  /\ Primary.meta.profile = <<QICORE_PROFILES.SimpleObservation>>
  /\ \E k \in OfType(last.before, "Observation") :
       /\ "specimen" \in DOMAIN last.before[k].resource
       /\ last.before[k].resource.meta.profile # Primary.meta.profile

\* The catalog URLs a resource may carry, by its type and variant: an
\* Observation's by its category, a MedicationRequest's by doNotPerform.
C14_Catalog(resource) ==
  LET type == resource.resourceType
  IN CASE type = "Specimen" -> {USCORE_PROFILES.Specimen}
       [] type = "MeasureReport" -> {CQFM_PROFILES.MeasureReport}
       [] type = "Observation" ->
            {IF resource.category[1].code = "laboratory"
               THEN QICORE_PROFILES.ObservationLab
             ELSE IF resource.category[1].code = "vital-signs"
               THEN QICORE_PROFILES.ObservationClinicalResult
             ELSE QICORE_PROFILES.SimpleObservation}
       [] type = "Patient" -> {QICORE_PROFILES.Patient}
       [] type = "Practitioner" -> {QICORE_PROFILES.Practitioner}
       [] type = "Encounter" -> {QICORE_PROFILES.Encounter}
       [] type = "Coverage" -> {QICORE_PROFILES.Coverage}
       [] type = "Location" -> {QICORE_PROFILES.Location}
       [] type = "Device" -> {QICORE_PROFILES.Device}
       [] type = "Procedure" -> {QICORE_PROFILES.Procedure}
       [] type = "MedicationAdministration" -> {QICORE_PROFILES.MedicationAdministration}
       [] type = "MedicationRequest" -> {QICORE_PROFILES.MedicationRequest}
       [] OTHER -> {}

C15_NegationVariants ==
  last.op \in {"add_observation_data_absent", "add_medication_not_requested",
               "add_service_not_requested"} =>
    LET positive ==
          CASE last.op = "add_observation_data_absent" ->
                 observation_profile(last.args.category)
            [] last.op = "add_medication_not_requested" ->
                 QICORE_PROFILES.MedicationRequest
            [] last.op = "add_service_not_requested" ->
                 QICORE_PROFILES.ServiceRequest
    IN /\ Primary.meta.profile # <<positive>>
       /\ "doNotPerform" \in DOMAIN Primary
       /\ Primary.doNotPerform = TRUE
       /\ \/ "reasonCode" \in DOMAIN Primary
          \/ "dataAbsentReason" \in DOMAIN Primary

\* C16: export never completes for a bundle without a Patient entry: every
\* bundle that was saved holds a Patient.
C16_NoPatientIsFatal ==
  \A s \in 1..Len(saved) : OfType(saved[s].bundle.entry, "Patient") # {}

\* The ids a call was given for resources of other entries, each with the
\* type it must name: its encounter_id, medication_id and location_id.
C17_IdArguments ==
  (IF "encounter_id" \in DOMAIN last.args
   THEN {<<"Encounter", last.args.encounter_id>>} ELSE {})
  \cup (IF "medication_id" \in DOMAIN last.args
        THEN {<<"Medication", last.args.medication_id>>} ELSE {})
  \cup (IF "location_id" \in DOMAIN last.args
        THEN {<<"Location", last.args.location_id>>} \ {<<"Location", None>>}
        ELSE {})

\* C17: a factory call given an encounter_id, medication_id or location_id
\* that is the id of no entry of that type appends nothing.
C17_UnknownIdFailsFast ==
  (\E a \in C17_IdArguments :
     \A k \in OfType(last.before, a[1]) : last.before[k].resource.id # a[2])
  => SourceEntries = last.before

\* The records of a resource that stand for another resource: the values of
\* its reference fields, by resource type where the field's shape differs.
Links(r) ==
  LET type == r.resourceType
      one(f) == IF f \in DOMAIN r THEN {r[f]} ELSE {}
      many(f) == IF f \in DOMAIN r THEN {r[f][k] : k \in 1..Len(r[f])} ELSE {}
      nested(f, g) == IF f \in DOMAIN r THEN {r[f][k][g] : k \in 1..Len(r[f])} ELSE {}
  IN UNION {one(f) : f \in {"subject", "beneficiary", "patient", "policyHolder",
                            "subscriber", "encounter", "context", "specimen",
                            "managingOrganization", "partOf", "reportedReference",
                            "requester", "recorder", "medicationReference",
                            "manufacturer"}}
     \cup UNION {many(f) : f \in {"generalPractitioner", "payor", "reasonReference",
                                  "account", "basedOn", "replaces", "insurance",
                                  "endpoint", "evaluatedResource"}}
     \cup (IF type = "Patient" THEN nested("link", "other") ELSE {})
     \cup (IF type = "Encounter"
           THEN nested("diagnosis", "condition") \cup nested("location", "location")
           ELSE {})
     \cup (IF type = "Procedure" THEN one("location") ELSE {})
     \cup (IF type = "MedicationAdministration"
           THEN nested("performer", "actor") \cup many("device") ELSE {})
     \cup (IF type \in {"Observation", "ServiceRequest"} THEN many("performer") ELSE {})
     \cup (IF type = "Observation" THEN one("device") ELSE {})

\* Every local reference string that occurs in a resource.
References(r) == {x.reference : x \in {l \in Links(r) : "reference" \in DOMAIN l}}

\* Every reference of every entry of the caller's bundle.
AllReferences == UNION {References(SourceEntries[k].resource) : k \in 1..Len(SourceEntries)}

\* C18: in a bundle built after add_patient by calls whose encounter_id,
\* medication_id and location_id arguments were all ids returned before (no
\* entry names one of the ids that no call returned), every reference names
\* an entry of the bundle by its type and id.
C18_NoDanglingReferences ==
  (/\ \E k \in OfType(SourceEntries, "Patient") :
        SourceEntries[k].resource.id = source_gen.patient_id
   /\ AllReferences \cap {"Encounter/enc-unknown", "Medication/med-unknown",
                          "Location/loc-unknown"} = {})
  => \A ref \in AllReferences :
       \E k \in 1..Len(SourceEntries) : LocalRef(SourceEntries[k]) = ref

\* The auxiliary resource types an operation of SpecRefs synthesizes before
\* its primary resource.
C19_Auxiliaries(op) ==
  CASE op = "add_patient" -> <<"Practitioner">>
    [] op = "add_encounter_with_cc" -> <<"Condition">>
    [] op = "add_medication_request_with_reference" -> <<"Practitioner", "Practitioner">>
    [] op = "add_observation" -> <<"Specimen">>
    [] op = "add_observation_full" ->
         <<"Specimen", "Device", "Practitioner", "ServiceRequest">>
    [] op = "add_medication_administration" -> <<"Practitioner", "Device">>
    [] OTHER -> <<>>

\* C19: after an operation that synthesizes auxiliaries, each auxiliary is
\* an entry of the bundle, in front of the primary, and the primary names it
\* by a reference "{type}/{id}" of that entry's own type and id; no field of
\* the primary that stands for another resource carries a resource itself.
C19_AuxiliaryOwnership ==
  last.op # "__init__" =>
    LET aux == C19_Auxiliaries(last.op)
        n0 == Len(last.before)
    IN /\ Len(SourceEntries) = n0 + Len(aux) + 1
       /\ \A k \in 1..Len(aux) :
            /\ SourceEntries[n0 + k].resource.resourceType = aux[k]
            /\ LocalRef(SourceEntries[n0 + k]) \in References(Primary)
       /\ \A l \in Links(Primary) : "resourceType" \notin DOMAIN l
       /\ Primary.id = last.ret

\* C19's case: add_observation_full (four auxiliaries) and
\* add_encounter_with_cc (its Condition) were both called.
C19_Witness ==
  /\ last.op = "add_observation_full"
  /\ Len(SourceEntries) = Len(last.before) + 5
  /\ \E k \in OfType(last.before, "Encounter") : k > 1 /\
       last.before[k - 1].resource.resourceType = "Condition" /\
       last.before[k].resource.diagnosis[1].condition.reference =
         LocalRef(last.before[k - 1])

\* C20: _add_entry given no resource_id appends an entry whose resource
\* carries the id that fullUrl and request.url use and that is returned: a
\* fresh one when the resource had none, the resource's own otherwise.
C20_IdAssignedOnAppend ==
  (last.op = "_add_entry" /\ last.args.resource_id = None) =>
    LET e == SourceEntries[Len(SourceEntries)]
    IN /\ "id" \in DOMAIN e.resource
       /\ e.resource.id = last.ret
       /\ e.fullUrl = "https://madie.cms.gov/" \o e.resource.resourceType \o "/" \o last.ret
       /\ e.request.url = e.resource.resourceType \o "/" \o last.ret
       /\ "id" \in DOMAIN last.args.resource => last.ret = last.args.resource.id

C22_SingleSubject ==
  [][/\ source_gen'.patient_id = source_gen.patient_id
     /\ \A k \in 1..Len(SourceEntries') :
          LET resource == SourceEntries'[k].resource
          IN /\ \A f \in {"subject", "patient", "beneficiary"} \cap DOMAIN resource :
                  resource[f] = [reference |-> "Patient/" \o source_gen.patient_id]
             /\ resource.resourceType = "Patient" =>
                  resource.id = source_gen.patient_id
    ]_vars

\* C22's case: a bundle with a Patient, a Coverage (beneficiary), a Device
\* (patient) and an Encounter (subject), all of one subject.
C22_Witness ==
  /\ OfType(SourceEntries, "Patient") # {}
  /\ \E k \in OfType(SourceEntries, "Coverage") :
       SourceEntries[k].resource.beneficiary.reference =
         "Patient/" \o source_gen.patient_id
  /\ \E k \in OfType(SourceEntries, "Device") :
       SourceEntries[k].resource.patient.reference =
         "Patient/" \o source_gen.patient_id

\* C23: the Encounter of add_encounter has class.code = class_code,
\* class.display = the caller's class_display when given, else the map's
\* display for class_code ('ambulatory' for a code outside the map), and
\* period = {start, end} as passed, also when start is after end.
C23_EncounterClassAndPeriod ==
  last.op = "add_encounter" =>
    LET code == last.args.class_code
        mapped ==
          CASE code = "IMP" -> "inpatient encounter"
            [] code = "ACUTE" -> "inpatient acute"
            [] code = "NONAC" -> "inpatient non-acute"
            [] code = "SS" -> "short stay"
            [] code = "EMER" -> "emergency"
            [] code = "OBSENC" -> "observation encounter"
            [] code = "AMB" -> "ambulatory"
            [] OTHER -> "ambulatory"
    IN /\ Len(SourceEntries) = Len(last.before) + 1
       /\ Primary.resourceType = "Encounter"
       /\ Primary.id = last.ret
       /\ Primary.class.code = code
       /\ Primary.class.display =
            (IF last.args.class_display # None THEN last.args.class_display ELSE mapped)
       /\ Primary.period = [start |-> last.args.start, end |-> last.args.end]

\* C23's case: add_encounter with a class code outside the map, no display,
\* and a period that ends before it starts.
C23_Witness ==
  /\ last.op = "add_encounter"
  /\ last.args.class_code = "XX"
  /\ last.args.class_display = None
  /\ Primary.class.display = "ambulatory"
  /\ Primary.period = [start |-> "2022-01-10T12:00:00.000Z",
                       end |-> "2022-01-05T08:00:00.000Z"]

\* C24: _update_patient_references changes a subject, beneficiary or patient
\* reference of a non-Patient entry only if it named the old subject (a
\* Patient entry of the bundle, or the source generator's patient_id); a
\* reference to anything else is left as it was.
C24_RewriteOnlyOldSubject ==
  [][RekeyStep =>
       LET old == heap[gen.bundle].entry
           new == heap'[gen.bundle].entry
           subjects == {"Patient/" \o old[k].resource.id : k \in OfType(old, "Patient")}
                       \cup {"Patient/" \o source_gen.patient_id}
       IN \A k \in 1..Len(old) :
            old[k].resource.resourceType # "Patient" =>
              \A f \in {"subject", "beneficiary", "patient"} \cap DOMAIN old[k].resource :
                old[k].resource[f].reference \notin subjects =>
                  new[k].resource[f] = old[k].resource[f]
    ]_vars

\* C25: every saved bundle holds exactly one MeasureReport entry, and the
\* evaluatedResource of that report names no MeasureReport, also when a
\* generator is registered or exported more than once.
C25_OneMeasureReport ==
  \A s \in 1..Len(saved) :
    LET entry == saved[s].bundle.entry
        reports == OfType(entry, "MeasureReport")
    IN /\ Cardinality(reports) = 1
       /\ \A m \in reports : \A k \in 1..Len(entry[m].resource.evaluatedResource) :
            \A r \in reports :
              entry[m].resource.evaluatedResource[k].reference # LocalRef(entry[r])

\* C26: between the caller's operations, the Patient entry of the source
\* generator's bundle has the id that the generator holds as patient_id,
\* after an export as before it.
C26_GeneratorBundleAgreement ==
  pc = "idle" =>
    \A k \in OfType(SourceEntries, "Patient") :
      SourceEntries[k].resource.id = source_gen.patient_id

\* SpecProfiles: add_observation and add_observation_full called with the
\* same categories on encounters the caller added.
ObservationCategories == {"laboratory", "vital-signs", "survey"}

NextProfiles ==
  \/ MayCall /\ AddEncounter("2022-01-05T08:00:00.000Z", "2022-01-10T12:00:00.000Z",
                             "IMP", None, None)
  \/ \E e \in EncounterIds, category \in ObservationCategories :
       MayCall /\ AddObservation(e, category)
  \/ \E e \in EncounterIds, category \in ObservationCategories :
       MayCall /\ AddObservationFull(e, category)

SpecProfiles == Init /\ [][NextProfiles]_vars

\* C27: the Observation of add_observation_full carries the profile that
\* add_observation attaches for the same category: Lab for "laboratory",
\* Clinical-Result for "vital-signs", Simple-Observation otherwise.
C27_FullSameProfileRule ==
  last.op = "add_observation_full" =>
    /\ Primary.resourceType = "Observation"
    /\ Primary.meta.profile = <<observation_profile(last.args.category)>>

\* Python truth of an Optional[str]: None and the empty string are false.
Truthy(x) == x # None /\ x # ""

\* a or b
Or(a, b) == IF Truthy(a) THEN a ELSE b

\* Default codes based on category (add_simple_observation).
simple_default_code(category) ==
  CASE category = "social-history" -> [code |-> "72166-2", display |-> "Tobacco smoking status"]
    [] category = "survey" -> [code |-> "44249-1", display |-> "PHQ-9 quick depression assessment panel"]
    [] category = "imaging" -> [code |-> "30746-2", display |-> "CT Chest"]
    [] category = "procedure" -> [code |-> "29463-7", display |-> "Body weight"]
    [] OTHER -> [code |-> "8302-2", display |-> "Body height"]

\* A bug the value[x] chain could have: the numeric value tested before
\* data_absent_reason.
simple_value_fields_value_first(category, value, value_string, value_codeable_concept, unit, data_absent_reason) ==
  IF value # None
    THEN [valueQuantity |-> [value |-> value, unit |-> Or(unit, "1"), code |-> Or(unit, "1")]]
  ELSE IF data_absent_reason # None
    THEN [dataAbsentReason |-> [coding |-> <<[code |-> data_absent_reason]>>]]
  ELSE IF value_string # None
    THEN [valueString |-> value_string]
  ELSE IF value_codeable_concept # NoDict
    THEN [valueCodeableConcept |-> [coding |-> <<value_codeable_concept>>]]
  ELSE IF category = "social-history"
    THEN [valueCodeableConcept |-> [coding |-> <<[code |-> "8517006", display |-> "Ex-smoker"]>>]]
  ELSE [valueString |-> "Test result"]

\* Set value[x] or dataAbsentReason based on what's provided
\* (add_simple_observation).  A float is written as its JSON literal, None as
\* None; a dict argument that is None is NoDict.
simple_value_fields(category, value, value_string, value_codeable_concept, unit, data_absent_reason) ==
  IF data_absent_reason # None
    THEN [dataAbsentReason |-> [coding |-> <<[code |-> data_absent_reason]>>]]
  ELSE IF value # None
    THEN [valueQuantity |-> [value |-> value, unit |-> Or(unit, "1"), code |-> Or(unit, "1")]]
  ELSE IF value_string # None
    THEN [valueString |-> value_string]
  ELSE IF value_codeable_concept # NoDict
    THEN [valueCodeableConcept |-> [coding |-> <<value_codeable_concept>>]]
  ELSE IF category = "social-history"
    THEN [valueCodeableConcept |-> [coding |-> <<[code |-> "8517006", display |-> "Ex-smoker"]>>]]
  ELSE [valueString |-> "Test result"]

\* Set effective[x] - either datetime or period (add_simple_observation).
simple_effective_fields(effective_datetime, effective_period_start, effective_period_end) ==
  IF Truthy(effective_period_start)
    THEN [effectivePeriod |->
            [start |-> effective_period_start] @@
            (IF Truthy(effective_period_end) THEN [end |-> effective_period_end] ELSE <<>>)]
    ELSE [effectiveDateTime |-> effective_datetime]

\* add_simple_observation: the observation id is drawn first and the specimen
\* id second, whether or not a Specimen is appended.
add_simple_observation(self, entry, n, encounter_id, category, value, value_string, value_codeable_concept, unit, effective_datetime, effective_period_start, effective_period_end, data_absent_reason, include_specimen) ==
  LET observation_id == _generate_id(n + 1)
      specimen_id == _generate_id(n + 2)
      code == simple_default_code(category)
      datetime == IF effective_datetime = None /\ effective_period_start = None
                  THEN "2022-01-06T10:00:00.000Z" ELSE effective_datetime
      specimen ==
        [resourceType |-> "Specimen",
         id |-> specimen_id,
         meta |-> [profile |-> <<USCORE_PROFILES.Specimen>>],
         subject |-> PatientRef(self),
         receivedTime |-> Or(datetime, effective_period_start),
         collection |-> [collectedDateTime |-> Or(datetime, effective_period_start)]]
      a1 == IF include_specimen
            THEN _add_entry(entry, n + 2, specimen, specimen_id)
            ELSE [entry |-> entry, uuids |-> n + 2, ret |-> None]
      observation ==
        [resourceType |-> "Observation",
         id |-> observation_id,
         meta |-> [profile |-> <<QICORE_PROFILES.SimpleObservation>>],
         partOf |-> <<[reference |-> "Procedure/proc-" \o first8(observation_id)]>>,
         status |-> "final",
         category |-> <<[code |-> category]>>,
         code |-> [coding |-> <<code>>],
         subject |-> PatientRef(self),
         encounter |-> [reference |-> "Encounter/" \o encounter_id],
         issued |-> Or(datetime, effective_period_start),
         hasMember |-> <<[reference |-> "Observation/member-" \o first8(observation_id)]>>,
         derivedFrom |-> <<[reference |-> "Observation/derived-" \o first8(observation_id)]>>]
        @@ (IF include_specimen
            THEN [specimen |-> [reference |-> "Specimen/" \o specimen_id]] ELSE <<>>)
        @@ simple_effective_fields(datetime, effective_period_start, effective_period_end)
        @@ simple_value_fields(category, value, value_string, value_codeable_concept,
                               unit, data_absent_reason)
  IN _add_entry(a1.entry, a1.uuids, observation, observation_id)

AddSimpleObservation(encounter_id, category, value, value_string, value_codeable_concept, effective_period_start, data_absent_reason, include_specimen) ==
  Call("add_simple_observation",
       [encounter_id |-> encounter_id, category |-> category, value |-> value,
        value_string |-> value_string,
        value_codeable_concept |-> value_codeable_concept,
        effective_period_start |-> effective_period_start,
        data_absent_reason |-> data_absent_reason,
        include_specimen |-> include_specimen],
       add_simple_observation(source_gen, SourceEntries, uuids, encounter_id, category,
                              value, value_string, value_codeable_concept, None, None,
                              effective_period_start, "2022-01-06T11:00:00.000Z",
                              data_absent_reason, include_specimen))

\* SpecSimple: add_simple_observation with every combination of given and
\* omitted value, timing and specimen arguments.
MaxSimple == 2

NextSimple ==
  \E e \in EncounterIds,
     category \in {"social-history", "survey"},
     value \in {None, "7.5"},
     value_string \in {None, "Never smoker"},
     value_codeable_concept \in {NoDict, [code |-> "266919005", display |-> "Never smoked tobacco"]},
     effective_period_start \in {None, "2022-01-06T09:00:00.000Z"},
     data_absent_reason \in {None, "unknown"},
     include_specimen \in BOOLEAN :
    /\ ops < MaxSimple
    /\ AddSimpleObservation(e, category, value, value_string, value_codeable_concept,
                            effective_period_start, data_absent_reason, include_specimen)

SpecSimple == Init /\ [][NextSimple]_vars

ExporterAddTestCase(series, title, expected_populations) ==
  /\ pc = "idle"
  /\ test_cases' = add_test_case(test_cases, lambda_gen, series, title,
                                 "Tests " \o title, expected_populations)
  /\ last' = [op |-> "add_test_case",
              args |-> [series |-> series, title |-> title,
                        expected_populations |-> expected_populations],
              ret |-> None, before |-> SourceEntries]
  /\ ops' = ops + 1
  /\ UNCHANGED <<heap, source_gen, uuids, pc, i, gen, saved, vsac>>

\* TestCaseRegistry.add keeps its arguments as they are, None included:
\* the cases a registry can hold.
RegistryCases ==
  {[series |-> "QualEncFail", title |-> "EncNone", description |-> "Tests EncNone",
    generator_func |-> lambda_gen, expected_populations |-> NoDict],
   [series |-> "QualEncPass", title |-> "EncInpatient", description |-> "Tests EncInpatient",
    generator_func |-> lambda_gen,
    expected_populations |-> Dict(<< <<"initialPopulation", 1>>, <<"numerator", 1>> >>)]}

\* The longest registry handed to register_all.
MaxRegistry == 2

Registries ==
  UNION {[1..n -> RegistryCases] : n \in 0..MaxRegistry}

\* TestCaseRegistry.register_all: add_test_case for each case, in order.
RECURSIVE register_all(_, _)

register_all(cases, registry) ==
  IF registry = <<>> THEN cases
  ELSE register_all(add_test_case(cases, Head(registry).generator_func,
                                  Head(registry).series, Head(registry).title,
                                  Head(registry).description,
                                  Head(registry).expected_populations),
                    Tail(registry))

RegisterAll(registry) ==
  /\ pc = "idle"
  /\ test_cases' = register_all(test_cases, registry)
  /\ last' = [op |-> "register_all", args |-> [registry |-> registry],
              ret |-> None, before |-> SourceEntries]
  /\ ops' = ops + 1
  /\ UNCHANGED <<heap, source_gen, uuids, pc, i, gen, saved, vsac>>

\* SpecCases: registration, directly and through a registry, with and
\* without populations, and export().
MaxCaseOps == 3

SeriesNames == {"QualEncPass", "QualEncFail", "QualEncfail"}

NextCases ==
  \/ \E series \in SeriesNames,
        expected_populations \in {NoDict, Dict(<< <<"initialPopulation", 1>>, <<"denominator", 0>> >>)} :
       ops < MaxCaseOps /\ ExporterAddTestCase(series, "EncInpatient", expected_populations)
  \/ \E registry \in Registries : ops < MaxCaseOps /\ RegisterAll(registry)
  \/ ops < MaxCaseOps /\ Export
  \/ ExportBind
  \/ ExportUpdate
  \/ ExportReport
  \/ ExportSave
  \/ ExportReturn

SpecCases == Init /\ [][NextCases]_vars

\* The populations a test case is registered with: the caller's, or the
\* one inferred from the series name when the caller gave none.
C29_Stored(series, expected_populations) ==
  IF expected_populations # NoDict THEN expected_populations
  ELSE IF series \in {"QualEncFail", "FailQualEnc"}
       THEN [items |-> << <<"initialPopulation", 0>> >>]
       ELSE [items |-> << <<"initialPopulation", 1>> >>]

\* C29: add_test_case stores the caller's expected_populations when one is
\* given, and otherwise initialPopulation 0 when the series name contains
\* "Fail" and initialPopulation 1 when it does not; register_all stores its
\* cases by the same rule, in the registry's order; and export() saves the
\* test cases in the order of their registration, each with its populations.
C29_DefaultPopulations ==
  /\ last.op = "add_test_case" =>
       LET tc == test_cases[Len(test_cases)]
       IN /\ tc.series = last.args.series
          /\ tc.title = last.args.title
          /\ tc.expected_populations =
               C29_Stored(last.args.series, last.args.expected_populations)
  /\ last.op = "register_all" =>
       LET registry == last.args.registry
           n0 == Len(test_cases) - Len(registry)
       IN /\ n0 >= 0
          /\ \A k \in 1..Len(registry) :
               /\ test_cases[n0 + k].series = registry[k].series
               /\ test_cases[n0 + k].title = registry[k].title
               /\ test_cases[n0 + k].expected_populations =
                    C29_Stored(registry[k].series, registry[k].expected_populations)
  /\ pc # "idle" =>
       /\ Len(saved) >= i - 1
       /\ \A k \in 1..(i - 1) :
            LET s == saved[Len(saved) - (i - 1) + k]
                report == s.bundle.entry[Len(s.bundle.entry)].resource
            IN /\ s.filename = exporter.measure_name \o "-v" \o exporter.version \o "-"
                                 \o test_cases[k].series \o test_cases[k].title \o ".json"
               /\ report.resourceType = "MeasureReport"
               /\ report.group[1].population =
                    build_populations(test_cases[k].expected_populations.items)

\* C29's case: export() has saved three test cases, the first registered by
\* add_test_case with no populations under a series name that has "fail" in
\* lower case only, the others through a registry, one of them with no
\* populations under a series name that contains "Fail".
C29_Witness ==
  /\ pc = "loop"
  /\ i = 4
  /\ Len(test_cases) = 3
  /\ last.op = "register_all"
  /\ Len(last.args.registry) = 2
  /\ test_cases[1].series = "QualEncfail"
  /\ test_cases[1].expected_populations = [items |-> << <<"initialPopulation", 1>> >>]
  /\ test_cases[2].series = "QualEncPass"
  /\ test_cases[3].series = "QualEncFail"
  /\ test_cases[3].expected_populations = [items |-> << <<"initialPopulation", 0>> >>]
  /\ Len(saved) = 3

\* client = VSACClient(api_key, max_retries=max_retries)
NewClient(max_retries) ==
  /\ vsac.pc = "idle"
  /\ vsac' = VSACClient(max_retries)
  /\ ops' = ops + 1
  /\ UNCHANGED <<heap, source_gen, uuids, last, test_cases, pc, i, gen, saved>>

\* _make_request(url, headers) is entered: last_exception = None, the loop
\* starts at attempt 0.
MakeRequest ==
  /\ vsac.pc \in {"idle", "done"}
  /\ vsac' = [vsac EXCEPT !.pc = "request", !.attempt = 0, !.last_exception = None,
                          !.result = [kind |-> "none"], !.log = <<>>,
                          !.retries0 = vsac.retries]
  /\ ops' = ops + 1
  /\ UNCHANGED <<heap, source_gen, uuids, last, test_cases, pc, i, gen, saved>>

\* One iteration of the loop.
MakeRequestAttempt(outcome) ==
  /\ vsac.pc = "request"
  /\ vsac.attempt < vsac.max_retries + 1
  /\ vsac' = make_request_attempt(vsac, outcome)
  /\ UNCHANGED <<heap, source_gen, uuids, last, test_cases, pc, i, gen, saved, ops>>

\* The loop is over: raise last_exception.
MakeRequestRaise ==
  /\ vsac.pc = "request"
  /\ vsac.attempt >= vsac.max_retries + 1
  /\ vsac' = [vsac EXCEPT !.pc = "done",
                          !.result = [kind |-> "raise", exception |-> vsac.last_exception]]
  /\ UNCHANGED <<heap, source_gen, uuids, last, test_cases, pc, i, gen, saved, ops>>

\* SpecVsac: clients with 0..MaxRetries retries, and _make_request calls
\* whose requests meet any outcome.
MaxRetries == 2

MaxRequests == 2

NextVsac ==
  \/ \E max_retries \in 0..MaxRetries : ops = 0 /\ NewClient(max_retries)
  \/ ops < 1 + MaxRequests /\ MakeRequest
  \/ \E outcome \in Outcomes : MakeRequestAttempt(outcome)
  \/ MakeRequestRaise

SpecVsac == Init /\ [][NextVsac]_vars

\* C30: _make_request makes at most max_retries + 1 requests and adds at
\* most max_retries to the 'retries' statistic; it returns the first
\* response whose status is not 429; when every one of the max_retries + 1
\* requests met a timeout, connection or request exception it raises
\* VSACConnectionError; when the last permitted request was answered 429 it
\* raises VSACRateLimitError.
C30_BoundedRetry ==
  LET log == vsac.log
      IsResponse(k) == log[k].kind = "response"
      Is429(k) == IsResponse(k) /\ log[k].status_code = 429
      Answered == {k \in 1..Len(log) : IsResponse(k) /\ ~Is429(k)}
  IN /\ Len(log) <= vsac.max_retries + 1
     /\ vsac.retries - vsac.retries0 <= vsac.max_retries
     /\ vsac.pc = "request" => Answered = {}
     /\ vsac.pc = "done" =>
          /\ Answered # {} =>
               /\ Answered = {Len(log)}
               /\ vsac.result = [kind |-> "return",
                                 status_code |-> log[Len(log)].status_code]
          /\ vsac.result.kind = "return" => Answered # {}
          /\ (Len(log) = vsac.max_retries + 1 /\ \A k \in 1..Len(log) : ~IsResponse(k)) =>
               /\ vsac.result.kind = "raise"
               /\ vsac.result.exception = "VSACConnectionError"
          /\ (Len(log) = vsac.max_retries + 1 /\ Is429(Len(log))) =>
               /\ vsac.result.kind = "raise"
               /\ vsac.result.exception = "VSACRateLimitError"

==========================================================================
